---- MODULE Spec2Model ----
(***************************************************************************)
(* Model of the GitHub CMS synchronisation engine (GitHubService) and of   *)
(* the remote repository it talks to.                                      *)
(*                                                                         *)
(* Every octokit request is one atomic step of the remote store: it is     *)
(* either applied and answered, or refused with an error status and has no *)
(* effect.  Several service calls run concurrently (the service holds no   *)
(* lock), so the requests of different calls interleave freely.  A call's  *)
(* first request is sent when the call starts and its return follows its   *)
(* last answer, so a call takes one step per request.                      *)
(*                                                                         *)
(* The store follows the GitHub REST API: file writes are checked against  *)
(* the blob sha of the version they replace, and a ref update without      *)
(* `force` is accepted only as a fast-forward.  The object database is     *)
(* represented by its commits (with their trees); blobs and trees that no  *)
(* commit holds are not kept.                                              *)
(***************************************************************************)
EXTENDS Integers, Sequences, FiniteSets, TLC

\* ------------------------------------------------------------------ bounds

\* Total number of writing calls (commitFile, commitMultipleFiles) started in
\* one behaviour; reads are not limited.
MaxCalls == 2

\* Concurrent writers (request handlers running in parallel).
Procs == {"p1", "p2"}

\* Repository-relative file paths.
Paths == {"a.md", "b.md"}

\* Repository-relative directory paths: the root.
Dirs == {""}

\* JavaScript strings, as sequences of UTF-16 code units: "A" and "B" are
\* ASCII letters, "H" is a high surrogate and "L" a low surrogate.  The
\* contents commitFile is given: a well-formed string and a lone surrogate.
Contents == {<<"A">>, <<"H">>}

\* The file lists handed to commitMultipleFiles.
BatchInputs ==
    { <<>>,
      <<[name |-> "a.md", content |-> <<"A">>]>>,
      <<[name |-> "b.md", content |-> <<"H">>], [name |-> "a.md", content |-> <<"B">>]>> }

\* ------------------------------------------------------- string encodings

\* A string is well-formed when every surrogate code unit is part of a pair.
RECURSIVE WellFormed(_)
WellFormed(s) ==
    IF s = <<>> THEN TRUE
    ELSE IF Head(s) = "H"
         THEN Len(s) >= 2 /\ s[2] = "L" /\ WellFormed(Tail(Tail(s)))
         ELSE Head(s) # "L" /\ WellFormed(Tail(s))

\* An ASCII code unit is one byte: "A" is 41, "B" is 42; a longer piece of
\* ASCII text is written as the text itself.
AsciiByte(c) == IF c = "A" THEN "41" ELSE IF c = "B" THEN "42" ELSE c
AsciiUnit(b) == IF b = "41" THEN "A" ELSE IF b = "42" THEN "B" ELSE b

\* Buffer.from(s, 'utf8'): one byte group per code point; an unpaired
\* surrogate is encoded as U+FFFD (EF BF BD).
RECURSIVE Utf8Encode(_)
Utf8Encode(s) ==
    IF s = <<>> THEN <<>>
    ELSE IF Head(s) = "H" /\ Len(s) >= 2 /\ s[2] = "L"
         THEN <<"F0908080">> \o Utf8Encode(Tail(Tail(s)))
         ELSE IF Head(s) \in {"H", "L", "R"}
              THEN <<"EFBFBD">> \o Utf8Encode(Tail(s))
              ELSE <<AsciiByte(Head(s))>> \o Utf8Encode(Tail(s))

\* buffer.toString('utf8'): the inverse on byte groups; EF BF BD decodes to
\* the replacement character "R".
RECURSIVE Utf8Decode(_)
Utf8Decode(b) ==
    IF b = <<>> THEN <<>>
    ELSE (CASE Head(b) = "F0908080" -> <<"H", "L">>
            [] Head(b) = "EFBFBD"   -> <<"R">>
            [] OTHER                -> <<AsciiUnit(Head(b))>>) \o Utf8Decode(Tail(b))

\* buffer.toString('base64') and Buffer.from(x, 'base64'): a bijection
\* between byte strings and their base64 text.
Base64Encode(b) == <<"b64">> \o b
Base64Decode(t) == IF t # <<>> /\ Head(t) = "b64" THEN Tail(t) ELSE <<>>

\* --------------------------------------------------------------- the store

\* Git object ids are content hashes: a blob's sha is a function of its bytes.
NoSha == <<>>
BlobSha(bytes) == <<"blob">> \o bytes
BlobBytes(sha) == Tail(sha)

\* The tree entry of a path that does not exist.
Absent == <<"absent">>
NoEntry == [bytes |-> Absent, by |-> 0]
EmptyTree == [p \in Paths |-> NoEntry]

\* The repository's files before the first call: none, or files committed
\* earlier.
InitTrees ==
    { EmptyTree,
      [EmptyTree EXCEPT !["a.md"] = [bytes |-> <<"42">>, by |-> 0],
                        !["b.md"] = [bytes |-> <<"41">>, by |-> 0]] }

VARIABLES
    commits,   \* commit objects, by id: parent, tree, and the call that made it
    head,      \* the branch ref heads/<branch>: a commit id
    call,      \* per writer: the running service call and its local variables
    ncalls,    \* number of calls started that write
    last,      \* the call that returned most recently, and its outcome
    repo,      \* a repository with directories, for the reading operations
    request,   \* the operation invoked outside the sync engine, with its input
    response,  \* what that operation answered
    storage,   \* the browser's localStorage, for the draft store
    ui         \* the state of the component that is mounted in the browser

vars == <<commits, head, call, ncalls, last, repo, request, response, storage, ui>>
store == <<commits, head>>
sync == <<commits, head, call, ncalls, last>>
others == <<repo, request, response, storage, ui>>

TreeOf(c) == commits[c].tree

\* The commits reachable from c through parents, c included.
RECURSIVE HistoryIn(_, _)
HistoryIn(cs, c) == IF c = 0 THEN {} ELSE {c} \cup HistoryIn(cs, cs[c].parent)
History(c) == HistoryIn(commits, c)

Idle ==
    [op |-> "none", pc |-> "idle", id |-> 0, startHead |-> 0,
     filePath |-> "", content |-> <<>>, files |-> <<>>,
     existingSha |-> NoSha, ref |-> 0, commit |-> 0,
     pending |-> {}, blobs |-> <<>>, tree |-> EmptyTree, newCommit |-> 0,
     sent |-> <<>>]

NoCall ==
    [id |-> 0, op |-> "none", step |-> "idle", startHead |-> 0,
     filePath |-> "", content |-> <<>>, files |-> <<>>, token |-> NoSha,
     ref |-> 0, result |-> "none", err |-> "none", value |-> <<>>,
     at |-> 0, made |-> 0, sent |-> <<>>]

\* A commit object; besides parent and tree it remembers the call that made
\* it and what that call was given and had read.
Commit(parent, tree, c) ==
    [parent |-> parent, tree |-> tree, by |-> c.id, op |-> c.op,
     startHead |-> c.startHead, filePath |-> c.filePath,
     content |-> c.content, token |-> c.existingSha]

\* Outside the sync engine nothing is going on.
NoRepo == <<>>
NoRequest == [op |-> "none"]
NoResponse == [status |-> "none"]
NoStorage == [window |-> FALSE, item |-> [kind |-> "none"]]
NoUI == [mounted |-> "none"]

Init ==
    /\ \E t \in InitTrees : commits = <<Commit(0, t, Idle)>>
    /\ head = 1
    /\ call = [p \in Procs |-> Idle]
    /\ ncalls = 0
    /\ last = NoCall
    /\ repo = NoRepo
    /\ request = NoRequest
    /\ response = NoResponse
    /\ storage = NoStorage
    /\ ui = NoUI

\* A call returns: its outcome is recorded and the caller is free again.
\* `at` is the branch head the call's last request met, `made` the commit the
\* call put on the branch (0 if none).
Outcome(c, result, err, value, made) ==
    [id |-> c.id, op |-> c.op, step |-> c.pc, startHead |-> c.startHead,
     filePath |-> c.filePath, content |-> c.content, files |-> c.files,
     token |-> c.existingSha, ref |-> c.ref, result |-> result, err |-> err,
     value |-> value, at |-> head, made |-> made, sent |-> c.sent]

\* No request occurs twice in a list of requests sent.
NoRepeat(sent) ==
    \A i, j \in 1 .. Len(sent) : i # j => sent[i] # sent[j]

\* Faulty variant: a call whose request failed sends that request once more
\* instead of returning.
ReturnRetrying(p, c, result, err, value, made) ==
    IF result # "ok" /\ NoRepeat(c.sent)
    THEN /\ call' = [call EXCEPT ![p] = [c EXCEPT !.sent = Append(c.sent, c.sent[Len(c.sent)])]]
         /\ UNCHANGED last
    ELSE /\ call' = [call EXCEPT ![p] = Idle]
         /\ last' = Outcome(c, result, err, value, made)

Return(p, c, result, err, value, made) ==
    /\ call' = [call EXCEPT ![p] = Idle]
    /\ last' = Outcome(c, result, err, value, made)

\* A writing call starts on a free writer; its local variables before its
\* first request.  Writers are interchangeable, so the lowest free one is
\* taken.
CanBegin(p) ==
    /\ call[p].pc = "idle"
    /\ (p = "p1" \/ call["p1"].pc # "idle")
    /\ ncalls < MaxCalls

Started(op, pc, filePath, content, files) ==
    [Idle EXCEPT !.op = op, !.pc = pc, !.id = ncalls + 1, !.startHead = head,
                 !.filePath = filePath, !.content = content, !.files = files]

\* A store request a call has sent: the octokit method, and the index of the
\* file it is for (0 when it is for no one file).
Request(method, i) == [method |-> method, i |-> i]

\* repos.getContent at the branch: 404 for a missing path; for a directory
\* an array of entries (no content, no sha); else the file's base64 content
\* and blob sha.
StoreGetContent(path) ==
    IF path \in Dirs
    THEN [status |-> "200", array |-> TRUE, content |-> <<>>, sha |-> NoSha]
    ELSE LET e == TreeOf(head)[path] IN
         IF e.bytes = Absent
         THEN [status |-> "404", array |-> FALSE, content |-> <<>>, sha |-> NoSha]
         ELSE [status |-> "200", array |-> FALSE,
               content |-> Base64Encode(e.bytes), sha |-> BlobSha(e.bytes)]

\* A request the store could not serve (transport, authentication, 5xx).
Unavailable == [status |-> "500", array |-> FALSE, content |-> <<>>, sha |-> NoSha]

\* ---------------------------------------------------------------- commitFile

\* Faulty variant: the sha of the answer is dropped.
ShaOfResponseDropped(resp) == NoSha

\* What getFileSha returns for an answered request.
ShaOfResponse(resp) == IF resp.status = "200" /\ ~resp.array THEN resp.sha ELSE NoSha

\* Faulty variant: getFileSha's catch returns undefined for every error.
getFileShaRethrowsNever(status) == FALSE

\* getFileSha's catch: 404 gives undefined, every other error is rethrown.
getFileShaRethrows(status) == status \notin {"200", "404"}

\* commitFile(filePath, content, message) is called and getFileSha asks for
\* the file: its sha, undefined on 404; any other error is rethrown and
\* commitFile's catch turns it into its own error.
commitFile(p, filePath, content) ==
    /\ CanBegin(p)
    /\ ncalls' = ncalls + 1
    /\ LET c == [Started("commitFile", "getFileSha", filePath, content, <<>>)
                    EXCEPT !.sent = <<Request("getContent", 0)>>] IN
       \E resp \in {StoreGetContent(filePath), Unavailable} :
         IF ~getFileShaRethrows(resp.status)
         THEN /\ call' = [call EXCEPT ![p] =
                    [c EXCEPT !.existingSha = ShaOfResponse(resp),
                              !.pc = "createOrUpdateFileContents",
                              !.sent = Append(c.sent, Request("createOrUpdateFileContents", 0))]]
              /\ UNCHANGED last
         ELSE Return(p, c, "Failed to commit file", resp.status, <<>>, 0)
    /\ UNCHANGED <<store, others>>

\* Faulty variants: the write goes to a fixed path; the write never carries
\* a sha.
PutPathFixed(c) == "a.md"
PutShaOmitted(c) == NoSha

\* The request body commitFile sends.
PutPath(c) == c.filePath
PutContent(c) == Base64Encode(Utf8Encode(c.content))
PutSha(c) == c.existingSha

\* repos.createOrUpdateFileContents: the store's answer to a write of `path`
\* carrying `sha`.  A new file takes no sha; an existing file needs the sha
\* of the blob it replaces.
StorePutStatus(path, sha) ==
    LET live == TreeOf(head)[path].bytes IN
    IF live = Absent
    THEN IF sha = NoSha THEN "201" ELSE "422"
    ELSE IF sha = NoSha THEN "422"
         ELSE IF sha = BlobSha(live) THEN "200" ELSE "409"

\* commitFile's write request and its return.
createOrUpdateFileContents(p) ==
    /\ call[p].pc = "createOrUpdateFileContents"
    /\ LET c == call[p]
           bytes == Base64Decode(PutContent(c))
           newTree == [TreeOf(head) EXCEPT ![PutPath(c)] = [bytes |-> bytes, by |-> c.id]]
       IN \E status \in {StorePutStatus(PutPath(c), PutSha(c)), "500"} :
            IF status \in {"200", "201"}
            THEN /\ commits' = Append(commits, Commit(head, newTree, c))
                 /\ head' = Len(commits) + 1
                 /\ Return(p, call[p], "ok", status, <<>>, Len(commits) + 1)
            ELSE /\ UNCHANGED store
                 /\ Return(p, call[p], "Failed to commit file", status, <<>>, 0)
    /\ UNCHANGED <<ncalls, others>>

\* ------------------------------------------------------- fetchMarkdownFile

\* Faulty variant: the answer's base64 text is returned undecoded.
DecodeContentSkipped(resp) == resp.content

\* The string fetchMarkdownFile returns for an answered request.
DecodeContent(resp) == Utf8Decode(Base64Decode(resp.content))

\* What fetchMarkdownFile does with the store's answer: the decoded content
\* of a file; for an array (a directory) it throws, and its catch turns that
\* and every request error into its one error.
fetchMarkdownFileResult(resp) ==
    IF resp.status = "200" /\ ~resp.array
    THEN [result |-> "ok", value |-> DecodeContent(resp)]
    ELSE [result |-> "Failed to fetch file", value |-> <<>>]

\* Which answer it was, as the store knows it.
AnswerKind(resp) == IF resp.array THEN "dir" ELSE resp.status

\* fetchMarkdownFile(filePath): one getContent request and the return.
fetchMarkdownFile(filePath) ==
    /\ LET c == [Idle EXCEPT !.op = "fetchMarkdownFile", !.pc = "getContent",
                             !.startHead = head, !.filePath = filePath,
                             !.sent = <<Request("getContent", 0)>>] IN
       \E resp \in {StoreGetContent(filePath), Unavailable} :
         LET r == fetchMarkdownFileResult(resp) IN
         last' = Outcome(c, r.result, AnswerKind(resp), r.value, 0)
    /\ UNCHANGED <<store, call, ncalls, others>>

\* ----------------------------------------------------- commitMultipleFiles

\* commitMultipleFiles(files, message) is called and git.getRef reads the
\* branch's head commit id.
commitMultipleFiles(p, files) ==
    /\ CanBegin(p)
    /\ ncalls' = ncalls + 1
    /\ LET c == [Started("commitMultipleFiles", "getRef", "", <<>>, files)
                    EXCEPT !.sent = <<Request("getRef", 0)>>] IN
       \E status \in {"200", "500"} :
         IF status = "200"
         THEN /\ call' = [call EXCEPT ![p] =
                    [c EXCEPT !.ref = head, !.pc = "getCommit",
                              !.sent = Append(c.sent, Request("getCommit", 0))]]
              /\ UNCHANGED last
         ELSE Return(p, c, "Failed to commit multiple files", status, <<>>, 0)
    /\ UNCHANGED <<store, others>>

\* Faulty variant: createTree is sent along with the createBlob requests.
AfterGetCommitEager(files) ==
    [i \in 1 .. Len(files) |-> Request("createBlob", i)] \o <<Request("createTree", 0)>>

\* The requests files.map sends, one createBlob per file in list order; with
\* no file, Promise.all resolves at once and createTree is sent.
AfterGetCommit(files) ==
    IF files = <<>> THEN <<Request("createTree", 0)>>
    ELSE [i \in 1 .. Len(files) |-> Request("createBlob", i)]

\* git.getCommit of that id; then files.map issues one createBlob request
\* per file, all at once, and Promise.all waits for them.
getCommit(p) ==
    /\ call[p].pc = "getCommit"
    /\ \E status \in {"200", "500"} :
         IF status = "200"
         THEN /\ call' = [call EXCEPT
                    ![p].commit = call[p].ref,
                    ![p].pending = 1 .. Len(call[p].files),
                    ![p].blobs = [i \in 1 .. Len(call[p].files) |-> NoSha],
                    ![p].pc = IF call[p].files = <<>> THEN "createTree" ELSE "createBlob",
                    ![p].sent = call[p].sent \o AfterGetCommit(call[p].files)]
              /\ UNCHANGED last
         ELSE Return(p, call[p], "Failed to commit multiple files", status, <<>>, 0)
    /\ UNCHANGED <<store, ncalls, others>>

\* The content a createBlob request carries.
BlobContent(file) == Base64Encode(Utf8Encode(file.content))

\* git.createBlob for file i is answered with the blob's sha.  The first
\* request that fails rejects Promise.all and the call returns.
createBlob(p, i) ==
    /\ call[p].pc = "createBlob"
    /\ i \in call[p].pending
    /\ LET c == call[p]
           sha == BlobSha(Base64Decode(BlobContent(c.files[i])))
       IN \E status \in {"201", "500"} :
            IF status = "201"
            THEN /\ call' = [call EXCEPT
                       ![p].blobs[i] = sha,
                       ![p].pending = c.pending \ {i},
                       ![p].pc = IF c.pending = {i} THEN "createTree" ELSE "createBlob",
                       ![p].sent = IF c.pending = {i}
                                   THEN Append(c.sent, Request("createTree", 0))
                                   ELSE c.sent]
                 /\ UNCHANGED last
            ELSE Return(p, call[p], "Failed to commit multiple files", status, <<>>, 0)
    /\ UNCHANGED <<store, ncalls, others>>

\* Faulty variants: no base tree is given; only the first file's entry is
\* given.
BaseTreeOmitted(c) == EmptyTree
TreeEntriesFirstOnly(c) ==
    [i \in 1 .. (IF Len(c.files) = 0 THEN 0 ELSE 1) |->
        [path |-> c.files[i].name, sha |-> c.blobs[i]]]

\* Faulty variant: an entry takes the sha the caller gave with the file.
TreeEntriesCallerSha(c) ==
    [i \in 1 .. Len(c.files) |->
        [path |-> c.files[i].name,
         sha |-> IF c.files[i].sha # NoSha THEN c.files[i].sha ELSE c.blobs[i]]]

\* The arguments of git.createTree: the head commit's tree as base, and one
\* entry per file.
BaseTree(c) == TreeOf(c.commit)
TreeEntries(c) == [i \in 1 .. Len(c.files) |-> [path |-> c.files[i].name, sha |-> c.blobs[i]]]

\* The tree git.createTree builds: the base with each entry's path set to the
\* entry's blob.
RECURSIVE Overlay(_, _, _)
Overlay(base, entries, id) ==
    IF entries = <<>> THEN base
    ELSE Overlay([base EXCEPT ![Head(entries).path] =
                      [bytes |-> BlobBytes(Head(entries).sha), by |-> id]],
                 Tail(entries), id)

\* git.createTree.  The store may refuse an empty entry list (422) or answer
\* with the base tree.
createTree(p) ==
    /\ call[p].pc = "createTree"
    /\ LET c == call[p]
           newTree == Overlay(BaseTree(c), TreeEntries(c), c.id)
       IN \E status \in {"201", "500"} \cup (IF TreeEntries(c) = <<>> THEN {"422"} ELSE {}) :
            IF status = "201"
            THEN /\ call' = [call EXCEPT
                       ![p].tree = newTree, ![p].pc = "createCommit",
                       ![p].sent = Append(c.sent, Request("createCommit", 0))]
                 /\ UNCHANGED last
            ELSE Return(p, call[p], "Failed to commit multiple files", status, <<>>, 0)
    /\ UNCHANGED <<store, ncalls, others>>

\* The parents argument of git.createCommit.
CommitParent(c) == c.commit

\* git.createCommit.
createCommit(p) ==
    /\ call[p].pc = "createCommit"
    /\ \E status \in {"201", "500"} :
         IF status = "201"
         THEN /\ commits' = Append(commits, Commit(CommitParent(call[p]), call[p].tree, call[p]))
              /\ call' = [call EXCEPT
                    ![p].newCommit = Len(commits) + 1, ![p].pc = "updateRef",
                    ![p].sent = Append(call[p].sent, Request("updateRef", 0))]
              /\ UNCHANGED last
         ELSE /\ Return(p, call[p], "Failed to commit multiple files", status, <<>>, 0)
              /\ UNCHANGED commits
    /\ UNCHANGED <<head, ncalls, others>>

\* Faulty variants: the ref update is forced; the awaited update is taken
\* to have failed whatever the store answered.
updateRefForced == TRUE
updateRefThrowsAlways(status) == TRUE

\* git.updateRef is sent without `force`, which the store reads as false.
updateRefForce == FALSE

\* The store moves a ref without force only forward: the new commit must
\* have the ref's present commit in its history.
StoreUpdateRefStatus(sha, force) ==
    IF force \/ head \in History(sha) THEN "200" ELSE "422"

\* Whether the awaited updateRef throws: octokit rejects on an error status.
updateRefThrows(status) == status \notin {"200", "201"}

\* git.updateRef and the call's return.
updateRef(p) ==
    /\ call[p].pc = "updateRef"
    /\ LET c == call[p] IN
       \E status \in {StoreUpdateRefStatus(c.newCommit, updateRefForce), "500"} :
         /\ head' = IF status = "200" THEN c.newCommit ELSE head
         /\ IF updateRefThrows(status)
            THEN Return(p, call[p], "Failed to commit multiple files", status, <<>>, 0)
            ELSE Return(p, call[p], "ok", status, <<>>, c.newCommit)
    /\ UNCHANGED <<commits, ncalls, others>>

Next ==
    \/ \E p \in Procs, f \in Paths, c \in Contents : commitFile(p, f, c)
    \/ \E p \in Procs : createOrUpdateFileContents(p)
    \/ \E f \in Paths \cup Dirs : fetchMarkdownFile(f)
    \/ \E p \in Procs, files \in BatchInputs : commitMultipleFiles(p, files)
    \/ \E p \in Procs : getCommit(p)
    \/ \E p \in Procs : \E i \in 1 .. Len(call[p].files) : createBlob(p, i)
    \/ \E p \in Procs : createTree(p)
    \/ \E p \in Procs : createCommit(p)
    \/ \E p \in Procs : updateRef(p)

Spec == Init /\ [][Next]_vars

\* ------------------------------------------------------------- properties

Writes == {"commitFile", "commitMultipleFiles"}

\* The paths of a file list, and the content the list gives a path.
BatchPaths(files) == {files[i].name : i \in 1 .. Len(files)}
FileContent(files, path) ==
    LET i == CHOOSE j \in 1 .. Len(files) :
                 files[j].name = path /\ \A k \in j + 1 .. Len(files) : files[k].name # path
    IN files[i].content

\* The paths whose version at commit h of the commit table cs was written by
\* call id.
VisibleAt(cs, h, id) == {f \in Paths : cs[h].tree[f].by = id}

\* A call returns in this step.
Returns(op) == last' # last /\ last'.op = op

\* C1: while a commitMultipleFiles call of two or more files is running, no
\* reader of the branch sees any of its file versions, and the step that
\* makes them visible makes all of them visible at once and is the call's
\* successful return: a reader never sees a strict subset of the batch.
C1_BatchAtomicForReaders ==
    [][\A p \in Procs :
         (call[p].op = "commitMultipleFiles" /\ Len(call[p].files) >= 2) =>
            /\ VisibleAt(commits, head, call[p].id) = {}
            /\ VisibleAt(commits', head', call[p].id) \in {{}, BatchPaths(call[p].files)}
            /\ VisibleAt(commits', head', call[p].id) # {} =>
                   (last'.id = call[p].id /\ last'.result = "ok")]_vars

\* A fetchMarkdownFile of a batch path has just returned the old content
\* while the batch's commit exists and the branch does not point at it yet.
C1_Witness ==
    \E p \in Procs :
        /\ call[p].op = "commitMultipleFiles"
        /\ Len(call[p].files) >= 2
        /\ call[p].pc = "updateRef"
        /\ last.op = "fetchMarkdownFile"
        /\ last.filePath \in BatchPaths(call[p].files)
        /\ last.at = head
        /\ last.result = "ok"
        /\ last.value # FileContent(call[p].files, last.filePath)

\* C2: when commitMultipleFiles sends its ref update and the branch no
\* longer points at the head read in step 1, the branch keeps the other
\* writer's head and the call returns ConcurrencyConflict.
C2_StaleHeadIsConcurrencyConflict ==
    (/\ last.op = "commitMultipleFiles"
     /\ last.step = "updateRef"
     /\ last.at # last.ref
     /\ last.err # "500")
    => (head = last.at /\ last.result = "ConcurrencyConflict")

\* What the code does in that case: the store refuses the update, the
\* branch keeps its head, and the call fails with its one generic error.
C2_StaleHeadRejected ==
    (/\ last.op = "commitMultipleFiles"
     /\ last.step = "updateRef"
     /\ last.at # last.ref)
    => (head = last.at /\ last.result = "Failed to commit multiple files")

\* C3: when two commitFile calls for one path both read the same sha before
\* either writes, and the first write succeeded, the second call does not
\* succeed and returns ConcurrencyConflict.
C3_SameTokenOneWinner ==
    (/\ last.op = "commitFile"
     /\ last.step = "createOrUpdateFileContents"
     /\ last.err # "500"
     /\ \E c \in History(last.at) \ History(last.startHead) :
           /\ commits[c].op = "commitFile"
           /\ commits[c].by # last.id
           /\ commits[c].filePath = last.filePath
           /\ commits[c].token = last.token)
    => last.result = "ConcurrencyConflict"

\* What the code does in that case: when the first write changed the
\* file's bytes, the second call fails with its one generic error.  (A first
\* write of the bytes already there leaves the sha as it was, and the second
\* write is accepted too.)
C3_SecondFailsWhenContentChanged ==
    (/\ last.op = "commitFile"
     /\ last.step = "createOrUpdateFileContents"
     /\ \E c \in History(last.at) \ History(last.startHead) :
           /\ commits[c].op = "commitFile"
           /\ commits[c].by # last.id
           /\ commits[c].filePath = last.filePath
           /\ commits[c].token = last.token
           /\ TreeOf(last.at)[last.filePath].bytes
                  # TreeOf(last.startHead)[last.filePath].bytes)
    => last.result = "Failed to commit file"

\* C4: the branch only ever moves from its present head to a new commit
\* built directly on that head, in the returning step of the call that made
\* the commit and reports success; a commitFile commit replaces the version
\* whose sha the call had read (or creates the path if it had read none), a
\* commitMultipleFiles commit replaces the head the call had read.  So a
\* write built on a stale sha or a stale head never lands, and every
\* successful write stays in the branch's history.
C4_NoLostUpdate ==
    [][/\ head' # head =>
            LET c == commits'[head'] IN
            /\ c.parent = head
            /\ last'.result = "ok" /\ last'.made = head' /\ last'.id = c.by
            /\ c.op \in Writes
            /\ c.op = "commitFile" =>
                  LET live == TreeOf(head)[c.filePath].bytes IN
                  c.token = IF live = Absent THEN NoSha ELSE BlobSha(live)
            /\ c.op = "commitMultipleFiles" => last'.ref = head
       /\ HistoryIn(commits, head) \subseteq HistoryIn(commits', head')
       /\ (last'.op \in Writes /\ last'.result = "ok") =>
              last'.made \in HistoryIn(commits', head')]_vars

\* A write built on a stale sha or head has just been refused, and the
\* branch holds the commit another writer put there in the meantime.
C4_Witness ==
    /\ last.op \in Writes
    /\ last.err \in {"409", "422"}
    /\ last.result # "ok"
    /\ head # last.startHead
    /\ head = last.at
    /\ commits[head].by # last.id
    /\ commits[head].op \in Writes

\* A fetchMarkdownFile has just been answered from a commit that a commitFile
\* call made for the same path.
FetchedFromCommitFile ==
    /\ last.op = "fetchMarkdownFile"
    /\ last.err # "500"
    /\ commits[last.at].op = "commitFile"
    /\ commits[last.at].filePath = last.filePath

\* The path had no version before the commit the fetch was answered from.
FetchedFirstVersion ==
    TreeOf(commits[last.at].parent)[last.filePath].bytes = Absent

\* C5 (as claimed): for every path with no prior version and every content,
\* a successful commitFile followed, with no writer in between, by
\* fetchMarkdownFile of the path returns exactly that content.
C5_RoundTripEveryContent ==
    (FetchedFromCommitFile /\ FetchedFirstVersion)
    => (last.result = "ok" /\ last.value = commits[last.at].content)

\* C5 (amended): the same for every content that is a well-formed string,
\* one in which no surrogate code unit is unpaired.
C5_RoundTripWellFormed ==
    (FetchedFromCommitFile /\ FetchedFirstVersion /\ WellFormed(commits[last.at].content))
    => (last.result = "ok" /\ last.value = commits[last.at].content)

\* A fetch has just returned the content a commitFile call created the path
\* with.
C5_Witness ==
    /\ FetchedFromCommitFile
    /\ FetchedFirstVersion
    /\ WellFormed(commits[last.at].content)
    /\ last.result = "ok"
    /\ last.value = commits[last.at].content
    /\ last.value # <<>>

\* The commit the last call met at the branch was made by a commitFile call
\* for the same path that had returned before the last call started, and
\* nothing was written in between.
AfterCommitFileOfSamePath(c, startHead, at, path) ==
    /\ c = startHead
    /\ c = at
    /\ commits[c].op = "commitFile"
    /\ commits[c].filePath = path

\* C6 (as claimed): commitFile(path, content1) then commitFile(path,
\* content2), the second called after the first returned and with no other
\* writer, both succeed, and a following fetchMarkdownFile(path) returns
\* content2.
C6_SequentialUpsertsEveryContent ==
    /\ (/\ last.op = "commitFile"
        /\ last.err # "500"
        /\ AfterCommitFileOfSamePath(last.at, last.startHead, last.at, last.filePath))
       => (last.result = "ok" /\ last.step = "createOrUpdateFileContents")
    /\ (/\ FetchedFromCommitFile
        /\ LET c2 == commits[last.at] IN
           AfterCommitFileOfSamePath(c2.parent, c2.startHead, c2.parent, last.filePath))
       => (last.result = "ok" /\ last.value = commits[last.at].content)

\* C6 (amended): the same, the fetch returning content2 when content2 is a
\* well-formed string.
C6_SequentialUpsertsWellFormed ==
    /\ (/\ last.op = "commitFile"
        /\ last.err # "500"
        /\ AfterCommitFileOfSamePath(last.at, last.startHead, last.at, last.filePath))
       => (last.result = "ok" /\ last.step = "createOrUpdateFileContents")
    /\ (/\ FetchedFromCommitFile
        /\ WellFormed(commits[last.at].content)
        /\ LET c2 == commits[last.at] IN
           AfterCommitFileOfSamePath(c2.parent, c2.startHead, c2.parent, last.filePath))
       => (last.result = "ok" /\ last.value = commits[last.at].content)

\* A fetch has just returned content2 after two commitFile calls for its
\* path, the second started after the first returned and writing other
\* content than the first.
C6_Witness ==
    /\ FetchedFromCommitFile
    /\ LET c2 == commits[last.at] IN
       /\ AfterCommitFileOfSamePath(c2.parent, c2.startHead, c2.parent, last.filePath)
       /\ c2.content # commits[c2.parent].content
       /\ WellFormed(c2.content)
       /\ last.value = c2.content
    /\ last.result = "ok"

\* C7: commitMultipleFiles with an empty file list is rejected with
\* InvalidArgument and changes nothing in the store: it creates no commit
\* and leaves the branch where it was.
C7_EmptyBatchRejected ==
    (/\ last.op = "commitMultipleFiles"
     /\ last.files = <<>>
     /\ last.err # "500")
    => /\ last.result = "InvalidArgument"
       /\ \A c \in 1 .. Len(commits) : commits[c].by # last.id
       /\ head = last.at

\* C8: a commitMultipleFiles call that fails, at whichever request, leaves
\* the branch where it was, and no commit it created is in the branch's
\* history; the branch moves only in the returning step of a call that
\* reports success, and only to that call's own commit, so what a failed
\* call created is never referenced later either.
C8_FailedBatchLeavesBranch ==
    [][/\ (Returns("commitMultipleFiles") /\ last'.result # "ok") =>
            /\ head' = head
            /\ \A c \in HistoryIn(commits', head') : commits'[c].by # last'.id
       /\ head' # head =>
            /\ last' # last
            /\ last'.result = "ok"
            /\ last'.id = commits'[head'].by]_vars

\* A commitMultipleFiles call has just failed at its ref update, after it
\* had created its commit; the branch is where the update met it.
C8_Witness ==
    /\ last.op = "commitMultipleFiles"
    /\ last.result # "ok"
    /\ last.step = "updateRef"
    /\ head = last.at
    /\ \E c \in 1 .. Len(commits) : commits[c].by = last.id /\ c \notin History(head)

\* C9: when commitMultipleFiles succeeds, the branch head is the call's
\* commit, its parent is the head read in step 1, and its tree is that
\* head's tree with every path of the batch holding the bytes of the batch's
\* content and every other path as it was.
C9_BatchTreeIsOverlay ==
    (last.op = "commitMultipleFiles" /\ last.result = "ok")
    => /\ head = last.made
       /\ commits[head].parent = last.ref
       /\ commits[head].by = last.id
       /\ \A f \in Paths :
            TreeOf(head)[f].bytes =
                IF f \in BatchPaths(last.files)
                THEN Utf8Encode(FileContent(last.files, f))
                ELSE TreeOf(last.ref)[f].bytes

\* A batch has just succeeded that replaced an existing file and left
\* another existing file, not in the batch, in place.
C9_Witness ==
    /\ last.op = "commitMultipleFiles"
    /\ last.result = "ok"
    /\ \E f \in BatchPaths(last.files) :
          /\ TreeOf(last.ref)[f].bytes # Absent
          /\ TreeOf(last.ref)[f].bytes # TreeOf(head)[f].bytes
    /\ \E f \in Paths \ BatchPaths(last.files) : TreeOf(head)[f].bytes # Absent

\* C10: a successful commitFile adds exactly one commit, built on the head
\* its write met, and moves the branch to it; the commit holds the bytes of
\* the content at the given path and every other path as it was.
C10_UpsertTouchesOnePath ==
    [][(Returns("commitFile") /\ last'.result = "ok") =>
         /\ Len(commits') = Len(commits) + 1
         /\ head' = Len(commits')
         /\ commits'[head'].parent = head
         /\ commits'[head'].tree[last'.filePath].bytes = Utf8Encode(last'.content)
         /\ \A f \in Paths \ {last'.filePath} :
               commits'[head'].tree[f] = commits[head].tree[f]]_vars

\* A commitFile has just succeeded on a branch that holds another file.
C10_Witness ==
    /\ last.op = "commitFile"
    /\ last.result = "ok"
    /\ head = last.made
    /\ \E f \in Paths \ {last.filePath} : TreeOf(head)[f].bytes # Absent

\* ------------------------------------------------ properties, second part

\* C11: a fetchMarkdownFile of a path that does not exist, or that is a
\* directory, fails with another error than a fetchMarkdownFile the store
\* could not serve (NotFound against StoreUnavailable), so that the caller
\* can tell the two apart.
C11_FetchFailuresDistinguishable ==
    (last.op = "fetchMarkdownFile" /\ last.err \in {"404", "dir"})
    => /\ last.result # "ok"
       /\ last.result # fetchMarkdownFileResult(Unavailable).result

\* What the code does: each of these fetches fails, with the one error of
\* fetchMarkdownFile's catch, and no fetch changes the store.
C11_FetchFailsWithOneError ==
    (last.op = "fetchMarkdownFile" /\ last.err \in {"404", "dir", "500"})
    => (last.result = "Failed to fetch file" /\ last.made = 0 /\ head = last.at)

\* The request the modelled service sends for each step of a call.
MethodOf(step) == IF step = "getFileSha" THEN "getContent" ELSE step

\* C14: when commitFile's read of the file's sha is answered 404, the write
\* is sent without a sha and creates the file; when the read finds the file,
\* the write carries the sha read; when the read fails in any other way the
\* call fails having sent the read alone: no write request, no commit.
C14_AbsenceMeansCreate ==
    /\ \A p \in Procs :
         (call[p].op = "commitFile" /\ call[p].pc = "createOrUpdateFileContents") =>
            LET live == TreeOf(call[p].startHead)[call[p].filePath].bytes IN
            /\ PutSha(call[p]) = IF live = Absent THEN NoSha ELSE BlobSha(live)
            /\ call[p].sent = <<Request("getContent", 0),
                                Request("createOrUpdateFileContents", 0)>>
    /\ (last.op = "commitFile" /\ last.step = "getFileSha") =>
         /\ last.result = "Failed to commit file"
         /\ last.err \notin {"200", "404"}
         /\ last.sent = <<Request("getContent", 0)>>
         /\ \A c \in 1 .. Len(commits) : commits[c].by # last.id
    /\ (last.op = "commitFile" /\ last.step = "createOrUpdateFileContents"
          /\ last.token = NoSha /\ last.err \in {"200", "201"}) =>
         /\ last.result = "ok"
         /\ last.err = "201"
         /\ TreeOf(commits[last.made].parent)[last.filePath].bytes = Absent
         /\ TreeOf(last.made)[last.filePath].bytes = Utf8Encode(last.content)

\* A commitFile has just created a file: its read was answered 404 and its
\* write, sent without a sha, was accepted.
C14_Witness ==
    /\ last.op = "commitFile"
    /\ last.result = "ok"
    /\ last.token = NoSha
    /\ last.err = "201"
    /\ TreeOf(last.startHead)[last.filePath].bytes = Absent
    /\ head = last.made

\* A commitFile has just failed at its read of the sha, of a file that
\* exists, and the branch is where it was.
C14_WitnessAbort ==
    /\ last.op = "commitFile"
    /\ last.step = "getFileSha"
    /\ last.err = "500"
    /\ TreeOf(head)[last.filePath].bytes # Absent
    /\ head = last.startHead

\* C15: no call sends a request twice (createBlob: once per file), a running
\* call waits for the request it sent last, and a call that failed sent
\* nothing after the request that failed.  A 404 answer to commitFile's read
\* of the sha is "absent", not a failure.
C15_NoRetry ==
    /\ \A p \in Procs :
         /\ NoRepeat(call[p].sent)
         /\ \A k \in 1 .. Len(call[p].sent) : call[p].sent[k].i \in 0 .. Len(call[p].files)
         /\ call[p].pc # "idle" =>
               call[p].sent[Len(call[p].sent)].method = MethodOf(call[p].pc)
    /\ NoRepeat(last.sent)
    /\ last.result \notin {"ok", "none"} =>
          last.sent[Len(last.sent)].method = MethodOf(last.step)
    /\ last.op \in {"commitFile", "fetchMarkdownFile"} => Len(last.sent) <= 2
    /\ last.op = "commitMultipleFiles" => Len(last.sent) <= 5 + Len(last.files)

\* A commitMultipleFiles call of two files has just failed at a createBlob
\* request, having sent its two reads and the two createBlob requests.
C15_Witness ==
    /\ last.op = "commitMultipleFiles"
    /\ last.result # "ok"
    /\ last.step = "createBlob"
    /\ last.sent = <<Request("getRef", 0), Request("getCommit", 0),
                     Request("createBlob", 1), Request("createBlob", 2)>>

\* The commits that landed on the branch between a call's start and its
\* last request.
Between(c) == History(c.at) \ History(c.startHead)

\* C16: a commitFile call whose write meets a branch on which, since the
\* call started, only commitFile calls for other paths have landed, succeeds
\* (the store answering), and afterwards its path holds its content and each
\* of those other paths the content its own call wrote.
C16_DistinctPathsDoNotInterfere ==
    (/\ last.op = "commitFile"
     /\ last.step = "createOrUpdateFileContents"
     /\ last.err # "500"
     /\ \A c \in Between(last) :
           commits[c].op = "commitFile" /\ commits[c].filePath # last.filePath)
    => /\ last.result = "ok"
       /\ head = last.made
       /\ TreeOf(head)[last.filePath].bytes = Utf8Encode(last.content)
       /\ \A c \in Between(last) :
             (\A d \in Between(last) : d > c => commits[d].filePath # commits[c].filePath)
             => TreeOf(head)[commits[c].filePath].bytes = Utf8Encode(commits[c].content)

\* Two commitFile calls for different existing paths both read before either
\* wrote, and the second write has just succeeded after the first.
C16_Witness ==
    /\ last.op = "commitFile"
    /\ last.result = "ok"
    /\ TreeOf(last.startHead)[last.filePath].bytes # Absent
    /\ \E c \in Between(last) :
          /\ commits[c].op = "commitFile"
          /\ commits[c].filePath # last.filePath
          /\ commits[c].startHead = last.startHead
          /\ TreeOf(head)[commits[c].filePath].bytes = Utf8Encode(commits[c].content)
          /\ TreeOf(last.startHead)[commits[c].filePath].bytes # Utf8Encode(commits[c].content)

\* ------------------------------------------------- reading a repository

\* Names and paths are strings of characters.
Slash == <<"/">>
MdSuffix == <<".", "m", "d">>
ContentDir == <<"c", "o", "n", "t", "e", "n", "t">>

\* s.endsWith(suffix) and s.startsWith(prefix).
endsWith(s, suffix) ==
    /\ Len(s) >= Len(suffix)
    /\ SubSeq(s, Len(s) - Len(suffix) + 1, Len(s)) = suffix
startsWith(s, prefix) ==
    /\ Len(s) >= Len(prefix)
    /\ SubSeq(s, 1, Len(prefix)) = prefix

\* Markdown documents, as sequences of pieces of ASCII text.
DocScript == <<"<script>alert(1)</script>", "**bold**">>
DocLink == <<"# T", "<a href=x onclick=y>t</a>", "[l](u)">>
DocFrame == <<"<iframe src=x></iframe>", "<div style=s data-k=v>d</div>", "<form action=x>f</form>">>
DocPlain == <<"plain">>

\* What a directory of the repository may hold: markdown files, another
\* file, a file whose name merely ends in "md", and a subdirectory whose name
\* ends in ".md".
EntryKinds ==
    { [type |-> "file", name |-> <<"a", ".", "m", "d">>, text |-> DocScript],
      [type |-> "file", name |-> <<"b", ".", "m", "d">>, text |-> DocLink],
      [type |-> "file", name |-> <<"n", ".", "t", "x", "t">>, text |-> DocPlain],
      [type |-> "file", name |-> <<"c", "m", "d">>, text |-> DocFrame],
      [type |-> "dir", name |-> <<"d", ".", "m", "d">>, text |-> <<>>] }

\* Largest number of entries in the directory.
MaxEntries == 3

\* The listings of a directory: its entries in the store's order, no name
\* twice.
Listings ==
    UNION { { l \in [1 .. n -> EntryKinds] :
                \A i, j \in 1 .. n : i # j => l[i].name # l[j].name } : n \in 0 .. MaxEntries }

\* The repositories read from: the directory `content` is missing, or holds
\* one of the listings.
Repos ==
    {[exists |-> FALSE, entries |-> <<>>]}
        \cup {[exists |-> TRUE, entries |-> l] : l \in Listings}

PathOf(directory, name) == directory \o Slash \o name

\* The item of a directory listing for an entry.
Item(directory, e) == [type |-> e.type, name |-> e.name, path |-> PathOf(directory, e.name)]

\* repos.getContent on this repository: the listing of `content`, the
\* content of a file in it, an array for its subdirectory, 404 otherwise.
RepoGetContent(path) ==
    LET none == [status |-> "404", array |-> FALSE, data |-> <<>>, content |-> <<>>, sha |-> NoSha]
        hits == {i \in 1 .. Len(repo.entries) : PathOf(ContentDir, repo.entries[i].name) = path}
    IN IF ~repo.exists THEN none
       ELSE IF path = ContentDir
            THEN [none EXCEPT !.status = "200", !.array = TRUE,
                              !.data = [i \in 1 .. Len(repo.entries) |->
                                           Item(ContentDir, repo.entries[i])]]
            ELSE IF hits = {} THEN none
                 ELSE LET e == repo.entries[CHOOSE i \in hits : TRUE] IN
                      IF e.type = "dir"
                      THEN [none EXCEPT !.status = "200", !.array = TRUE]
                      ELSE [none EXCEPT !.status = "200",
                                        !.content = Base64Encode(Utf8Encode(e.text)),
                                        !.sha = BlobSha(Utf8Encode(e.text))]

\* The answers a getContent request may get: the store's, or none.
Answers(path) == {RepoGetContent(path), Unavailable}

\* Faulty variant: the filter looks at the name alone.
IsMarkdownItemByName(item) == endsWith(item.name, MdSuffix)

\* listMarkdownFiles' filter.
IsMarkdownItem(item) == item.type = "file" /\ endsWith(item.name, MdSuffix)

\* Array.prototype.filter(IsMarkdownItem).map(item => item.path).
RECURSIVE FilterMapPath(_)
FilterMapPath(data) ==
    IF data = <<>> THEN <<>>
    ELSE (IF IsMarkdownItem(Head(data)) THEN <<Head(data).path>> ELSE <<>>)
             \o FilterMapPath(Tail(data))

\* What listMarkdownFiles returns for the store's answer: the paths for an
\* array, [] for any other answer and, from its catch, for every error.
listMarkdownFilesResult(resp) ==
    IF resp.status = "200" /\ resp.array
    THEN [result |-> "ok", value |-> FilterMapPath(resp.data)]
    ELSE [result |-> "ok", value |-> <<>>]

\* The directories asked for: `content`, a file's path, and a path not there.
ListInputs == {ContentDir, PathOf(ContentDir, <<"a", ".", "m", "d">>), <<"x">>}

\* The reading operations keep nothing from one request to the next, and
\* nothing they do changes the repository: one operation is followed from
\* each repository.
Fresh == request = NoRequest

\* listMarkdownFiles(directory): one getContent request and the return.
listMarkdownFiles(directory) ==
    /\ Fresh
    /\ \E resp \in Answers(directory) :
         LET r == listMarkdownFilesResult(resp) IN
         /\ request' = [op |-> "listMarkdownFiles", directory |-> directory]
         /\ response' = [status |-> "returned", store |-> AnswerKind(resp),
                         result |-> r.result, value |-> r.value]
    /\ UNCHANGED <<sync, repo, storage, ui>>

\* ------------------------------------------------------------- rendering

\* An HTML fragment is a sequence of elements: tag, attributes, text.
Element(tag, attrs, text) == [tag |-> tag, attrs |-> attrs, text |-> text]
Attr(name, value) == [name |-> name, value |-> value]

\* marked, with gfm and breaks, on one piece of markdown: markdown syntax
\* becomes elements, and HTML written in the markdown is passed on as it is.
markedPiece(piece) ==
    CASE piece = "**bold**" -> Element("strong", {}, "bold")
      [] piece = "# T" -> Element("h1", {}, "T")
      [] piece = "[l](u)" -> Element("a", {Attr("href", "u")}, "l")
      [] piece = "<script>alert(1)</script>" -> Element("script", {}, "alert(1)")
      [] piece = "<a href=x onclick=y>t</a>" ->
            Element("a", {Attr("href", "x"), Attr("onclick", "y")}, "t")
      [] piece = "<iframe src=x></iframe>" -> Element("iframe", {Attr("src", "x")}, "")
      [] piece = "<div style=s data-k=v>d</div>" ->
            Element("div", {Attr("style", "s"), Attr("data-k", "v")}, "d")
      [] piece = "<form action=x>f</form>" -> Element("form", {Attr("action", "x")}, "f")
      [] OTHER -> Element("p", {}, piece)

marked(markdownContent) == [i \in 1 .. Len(markdownContent) |-> markedPiece(markdownContent[i])]

\* What may go wrong in the two libraries: marked throws, DOMPurify (or the
\* window made for it) throws.
Faults == [marked : BOOLEAN, purify : BOOLEAN]
NoFault == [marked |-> FALSE, purify |-> FALSE]

ParseErrorHTML == <<Element("p", {}, "Error parsing markdown content")>>
SanitizeErrorHTML == <<Element("p", {}, "Error processing content")>>

\* parseMarkdown: marked's output, or the placeholder from the catch.
parseMarkdown(markdownContent, markedThrows) ==
    IF markedThrows THEN ParseErrorHTML ELSE marked(markdownContent)

\* The allow-lists sanitizeHTML passes to DOMPurify.
ALLOWED_TAGS ==
    {"h1", "h2", "h3", "h4", "h5", "h6", "p", "br", "hr", "strong", "em", "u",
     "del", "code", "pre", "blockquote", "ul", "ol", "li", "table", "thead",
     "tbody", "tr", "th", "td", "a", "img", "div", "span"}
ALLOWED_ATTR == {"href", "title", "alt", "src", "class", "id", "target", "rel"}

\* Elements DOMPurify removes together with what they contain; of any other
\* element that is not allowed it keeps the text.
ForbidContents == {"script", "style", "iframe", "noscript", "template", "object", "embed"}

\* purify.sanitize(htmlContent, {ALLOWED_TAGS, ALLOWED_ATTR, ALLOW_DATA_ATTR: false}).
RECURSIVE purifySanitize(_)
purifySanitize(htmlContent) ==
    IF htmlContent = <<>> THEN <<>>
    ELSE LET e == Head(htmlContent) IN
         (IF e.tag \in ALLOWED_TAGS
          THEN <<Element(e.tag, {a \in e.attrs : a.name \in ALLOWED_ATTR}, e.text)>>
          ELSE IF e.tag \in ForbidContents THEN <<>>
               ELSE <<Element("#text", {}, e.text)>>)
             \o purifySanitize(Tail(htmlContent))

\* Faulty variant: when the sanitizer throws, its input is returned.
sanitizeHTMLFailingOpen(htmlContent, purifyThrows) ==
    IF purifyThrows THEN htmlContent ELSE purifySanitize(htmlContent)

\* sanitizeHTML: DOMPurify's output, or the placeholder from the catch.
sanitizeHTML(htmlContent, purifyThrows) ==
    IF purifyThrows THEN SanitizeErrorHTML ELSE purifySanitize(htmlContent)

\* Faulty variant: the parsed HTML is returned as it is.
markdownToHTMLUnsanitized(markdownContent, faults) ==
    parseMarkdown(markdownContent, faults.marked)

markdownToHTML(markdownContent, faults) ==
    sanitizeHTML(parseMarkdown(markdownContent, faults.marked), faults.purify)

\* ---------------------------------------------------------- configuration

Main == <<"m", "a", "i", "n">>
Ghp == <<"g", "h", "p", "_">>
GithubPat == <<"g", "i", "t", "h", "u", "b", "_", "p", "a", "t", "_">>

\* Values of the environment variables; <<>> is unset or empty.
Tokens == {<<>>, Ghp \o <<"1">>, Ghp \o <<"2">>, GithubPat \o <<"1">>, <<"x", "y", "z">>}
Owners == {<<>>, <<"o">>}
RepoNames == {<<>>, <<"r">>}
Branches == {<<>>, <<"d", "e", "v">>}
NodeEnvs == {<<>>, <<"p", "r", "o", "d", "u", "c", "t", "i", "o", "n">>}

Envs ==
    [GITHUB_TOKEN : Tokens, GITHUB_OWNER : Owners, GITHUB_REPO : RepoNames,
     GITHUB_BRANCH : Branches, NODE_ENV : NodeEnvs]

\* x || fallback
OrElse(x, fallback) == IF x = <<>> THEN fallback ELSE x

getConfig(env) ==
    LET nodeEnv == OrElse(env.NODE_ENV, <<"d", "e", "v", "e", "l", "o", "p", "m", "e", "n", "t">>) IN
    [github |-> [token |-> OrElse(env.GITHUB_TOKEN, <<>>),
                 owner |-> OrElse(env.GITHUB_OWNER, <<>>),
                 repo |-> OrElse(env.GITHUB_REPO, <<>>),
                 branch |-> OrElse(env.GITHUB_BRANCH, Main)],
     app |-> [nodeEnv |-> nodeEnv,
              isDev |-> nodeEnv = <<"d", "e", "v", "e", "l", "o", "p", "m", "e", "n", "t">>,
              isProd |-> nodeEnv = <<"p", "r", "o", "d", "u", "c", "t", "i", "o", "n">>]]

\* validateConfig: the list of errors.
validateConfig(config) ==
    (IF config.github.token = <<>> THEN <<"GITHUB_TOKEN is required">> ELSE <<>>)
    \o (IF config.github.owner = <<>> THEN <<"GITHUB_OWNER is required">> ELSE <<>>)
    \o (IF config.github.repo = <<>> THEN <<"GITHUB_REPO is required">> ELSE <<>>)
    \o (IF /\ config.github.token # <<>>
           /\ ~startsWith(config.github.token, Ghp)
           /\ ~startsWith(config.github.token, GithubPat)
        THEN <<"GITHUB_TOKEN appears to be invalid">> ELSE <<>>)

\* Faulty variant: the configuration is taken as it is.
getValidatedConfigThrowsNever(env) == FALSE

\* getValidatedConfig throws when there is an error.
getValidatedConfigThrows(env) == validateConfig(getConfig(env)) # <<>>

\* --------------------------------------------------------- request handlers

\* The environments the handlers run in: one that validates, and ones with a
\* missing token, a malformed token, no owner and no repository.
ValidEnv ==
    [GITHUB_TOKEN |-> Ghp \o <<"1">>, GITHUB_OWNER |-> <<"o">>, GITHUB_REPO |-> <<"r">>,
     GITHUB_BRANCH |-> <<>>, NODE_ENV |-> <<>>]
HandlerEnvs ==
    { ValidEnv,
      [ValidEnv EXCEPT !.GITHUB_TOKEN = <<>>],
      [ValidEnv EXCEPT !.GITHUB_TOKEN = <<"x", "y", "z">>],
      [ValidEnv EXCEPT !.GITHUB_OWNER = <<>>],
      [ValidEnv EXCEPT !.GITHUB_REPO = <<>>] }

\* NextResponse.json(body, {status}); `store` remembers how the store
\* answered the handler's requests.
Json(status, error, details, data, answers) ==
    [status |-> status, error |-> error, details |-> details, data |-> data,
     store |-> answers]

ConfigInvalid == Json(500, "GitHub configuration is invalid or missing", "", <<>>, <<>>)

\* The paths asked for: none, the directory, files in it, its subdirectory,
\* and a path that is in no repository.
FetchPaths ==
    {<<>>, ContentDir, <<"x">>}
        \cup {PathOf(ContentDir, e.name) : e \in EntryKinds}

\* GET /api/github/fetch?path=...
fetchGET(filePath, env) ==
    /\ Fresh
    /\ request' = [op |-> "fetchGET", path |-> filePath, env |-> env]
    /\ IF filePath = <<>>
       THEN response' = Json(400, "File path is required", "", <<>>, <<>>)
       ELSE IF getValidatedConfigThrows(env)
            THEN response' = ConfigInvalid
            ELSE \E resp \in Answers(filePath), faults \in Faults :
                   LET r == fetchMarkdownFileResult(resp) IN
                   response' =
                       IF r.result = "ok"
                       THEN Json(200, "", "",
                                 [markdownContent |-> r.value,
                                  htmlContent |-> markdownToHTML(r.value, faults),
                                  filePath |-> filePath],
                                 <<AnswerKind(resp)>>)
                       ELSE Json(500, "Failed to fetch content from GitHub", r.result,
                                 <<>>, <<AnswerKind(resp)>>)
    /\ UNCHANGED <<sync, repo, storage, ui>>

\* Largest number of paths in one POST.
MaxPaths == 2

\* A body whose `paths` is missing or is no array.
NotAnArray == <<"not an array">>

\* The paths a POST asks for: two files and a path that is in no repository.
PostPaths ==
    {PathOf(ContentDir, <<"a", ".", "m", "d">>), PathOf(ContentDir, <<"b", ".", "m", "d">>), <<"x">>}

PostInputs ==
    {NotAnArray} \cup UNION {[1 .. n -> PostPaths] : n \in 0 .. MaxPaths}

\* The tests of results.filter(...) on the settled results.
Fulfilled(result) == result.status = "fulfilled"
Rejected(result) == result.status = "rejected"

\* POST /api/github/fetch with {paths}: every path is fetched and rendered,
\* Promise.allSettled collects the outcomes, and the response lists them.
fetchPOST(paths, env) ==
    /\ Fresh
    /\ request' = [op |-> "fetchPOST", paths |-> paths, env |-> env]
    /\ IF paths = NotAnArray
       THEN response' = Json(400, "Paths array is required", "", <<>>, <<>>)
       ELSE IF getValidatedConfigThrows(env)
            THEN response' = ConfigInvalid
            ELSE \E down \in SUBSET (1 .. Len(paths)), faults \in Faults :
                   LET resp == [i \in 1 .. Len(paths) |->
                                   IF i \in down THEN Unavailable ELSE RepoGetContent(paths[i])]
                       results == [i \in 1 .. Len(paths) |->
                           LET r == fetchMarkdownFileResult(resp[i]) IN
                           IF r.result = "ok"
                           THEN [status |-> "fulfilled",
                                 value |-> [path |-> paths[i], markdownContent |-> r.value,
                                            htmlContent |-> markdownToHTML(r.value, faults)]]
                           ELSE [status |-> "rejected", reason |-> r.result]]
                       fulfilled == SelectSeq(results, Fulfilled)
                       rejected == SelectSeq(results, Rejected)
                   IN response' =
                          Json(200, "", "",
                               [successful |-> [k \in 1 .. Len(fulfilled) |-> fulfilled[k].value],
                                failed |-> [k \in 1 .. Len(rejected) |->
                                               [path |-> paths[k], error |-> rejected[k].reason]],
                                total |-> Len(paths)],
                               [i \in 1 .. Len(paths) |-> AnswerKind(resp[i])])
    /\ UNCHANGED <<sync, repo, storage, ui>>

\* GET /api/github/list?directory=...
listGET(directoryParam, env) ==
    /\ Fresh
    /\ request' = [op |-> "listGET", directory |-> directoryParam, env |-> env]
    /\ LET directory == OrElse(directoryParam, ContentDir) IN
       IF getValidatedConfigThrows(env)
       THEN response' = ConfigInvalid
       ELSE \E resp \in Answers(directory) :
              LET markdownFiles == listMarkdownFilesResult(resp).value IN
              response' = Json(200, "", "",
                               [files |-> markdownFiles, directory |-> directory,
                                total |-> Len(markdownFiles)],
                               <<AnswerKind(resp)>>)
    /\ UNCHANGED <<sync, repo, storage, ui>>

\* The reading operations on a repository nobody is writing.
ReadInit ==
    /\ commits = <<>>
    /\ head = 0
    /\ call = [p \in Procs |-> Idle]
    /\ ncalls = 0
    /\ last = NoCall
    /\ repo \in Repos
    /\ request = NoRequest
    /\ response = NoResponse
    /\ storage = NoStorage
    /\ ui = NoUI

ReadNext ==
    \/ \E directory \in ListInputs : listMarkdownFiles(directory)
    \/ \E filePath \in FetchPaths, env \in HandlerEnvs : fetchGET(filePath, env)
    \/ \E paths \in PostInputs, env \in HandlerEnvs : fetchPOST(paths, env)
    \/ \E directory \in ListInputs \cup {<<>>}, env \in HandlerEnvs : listGET(directory, env)

ReadSpec == ReadInit /\ [][ReadNext]_vars

\* ------------------------------------------------- properties of reading

\* The paths of the markdown files among a directory's entries, in order.
RECURSIVE MarkdownFilesIn(_)
MarkdownFilesIn(entries) ==
    IF entries = <<>> THEN <<>>
    ELSE LET e == Head(entries)
             n == Len(e.name)
         IN (IF /\ e.type = "file"
                /\ n >= 3
                /\ e.name[n - 2] = "." /\ e.name[n - 1] = "m" /\ e.name[n] = "d"
             THEN <<ContentDir \o <<"/">> \o e.name>>
             ELSE <<>>) \o MarkdownFilesIn(Tail(entries))

\* C12: listMarkdownFiles never raises; on an existing directory it returns
\* exactly the paths of the entries that are files whose name ends in ".md",
\* in the order of the store's listing; on a directory that does not exist
\* it returns the empty list.
C12_ListReturnsMarkdownFiles ==
    request.op = "listMarkdownFiles" =>
        /\ response.result = "ok"
        /\ (request.directory = ContentDir /\ response.store = "dir") =>
               response.value = MarkdownFilesIn(repo.entries)
        /\ response.store = "404" => response.value = <<>>

\* listMarkdownFiles has just returned the one markdown file of a directory
\* that also holds a subdirectory named like one and another entry.
C12_Witness ==
    /\ request.op = "listMarkdownFiles"
    /\ request.directory = ContentDir
    /\ response.store = "dir"
    /\ Len(repo.entries) = 3
    /\ Len(response.value) = 1
    /\ \E i \in 1 .. 3 : repo.entries[i].type = "dir" /\ endsWith(repo.entries[i].name, MdSuffix)

\* C13: when the store cannot serve the listing (transport or
\* authentication failure), listMarkdownFiles raises StoreUnavailable instead
\* of returning a list, and the list handler does not answer with success.
C13_ListPropagatesStoreFailure ==
    /\ (request.op = "listMarkdownFiles" /\ response.store = "500") =>
           response.result # "ok"
    /\ (request.op = "listGET" /\ response.store = <<"500">>) =>
           response.status # 200

\* What the code does: the failure is answered like a missing directory,
\* with the empty list, and the handler answers 200 with no file.
C13_ListSwallowsStoreFailure ==
    /\ (request.op = "listMarkdownFiles" /\ response.store \in {"500", "404"}) =>
           (response.result = "ok" /\ response.value = <<>>)
    /\ (request.op = "listGET" /\ response.store \in {<<"500">>, <<"404">>}) =>
           (response.status = 200 /\ response.data.files = <<>> /\ response.data.total = 0)

\* C17: the fetch handler answers 404 when the path it is asked for does not
\* exist in the repository (NotFound), 400 when no path is given, and 500
\* for every other failure.
C17_MissingPathAnswers404 ==
    request.op = "fetchGET" =>
        /\ response.store = <<"404">> => response.status = 404
        /\ request.path = <<>> => response.status = 400
        /\ response.store \in {<<"dir">>, <<"500">>} => response.status = 500

\* What the code does: 400 exactly for a request without its argument, 500
\* for an invalid configuration and for every failed fetch, a missing path
\* included, with the service's message as detail; 200 otherwise.
C17_HandlerStatuses ==
    /\ request.op = "fetchGET" =>
          /\ response.status = 400 <=> request.path = <<>>
          /\ response.status = 500 <=>
                /\ request.path # <<>>
                /\ \/ getValidatedConfigThrows(request.env)
                   \/ response.store \in {<<"404">>, <<"dir">>, <<"500">>}
          /\ response.store \in {<<"404">>, <<"dir">>, <<"500">>} =>
                response.details = "Failed to fetch file"
          /\ response.status \in {200, 400, 500}
    /\ request.op = "fetchPOST" =>
          /\ response.status = 400 <=> request.paths = NotAnArray
          /\ response.status = 500 <=>
                (request.paths # NotAnArray /\ getValidatedConfigThrows(request.env))
          /\ response.status \in {200, 400, 500}
    /\ request.op = "listGET" =>
          /\ response.status = 500 <=> getValidatedConfigThrows(request.env)
          /\ response.status \in {200, 500}

\* No element and no attribute outside the allow-lists.
Safe(htmlContent) ==
    \A k \in 1 .. Len(htmlContent) :
        /\ htmlContent[k].tag \in ALLOWED_TAGS \cup {"#text"}
        /\ \A a \in htmlContent[k].attrs : a.name \in ALLOWED_ATTR

\* C18: every htmlContent the fetch handlers return is what markdownToHTML
\* makes of the markdown they return beside it, and holds no
\* element and no attribute outside the allow-lists; so does markdownToHTML
\* of every document.
C18_SanitizedAlways ==
    /\ (request.op = "fetchGET" /\ response.status = 200) =>
          /\ \E faults \in Faults :
                response.data.htmlContent = markdownToHTML(response.data.markdownContent, faults)
          /\ Safe(response.data.htmlContent)
    /\ (request.op = "fetchPOST" /\ response.status = 200) =>
          \A k \in 1 .. Len(response.data.successful) :
             LET item == response.data.successful[k] IN
             /\ \E faults \in Faults :
                   item.htmlContent = markdownToHTML(item.markdownContent, faults)
             /\ Safe(item.htmlContent)
    /\ \A e \in EntryKinds, faults \in Faults : Safe(markdownToHTML(e.text, faults))

\* The fetch handler has just answered with a document that holds a script
\* element: the emphasis is rendered and the script is gone.
C18_Witness ==
    /\ request.op = "fetchGET"
    /\ response.status = 200
    /\ \E k \in 1 .. Len(response.data.markdownContent) :
          response.data.markdownContent[k] = "<script>alert(1)</script>"
    /\ \E k \in 1 .. Len(response.data.htmlContent) :
          response.data.htmlContent[k].tag = "strong"
    /\ \A k \in 1 .. Len(response.data.htmlContent) :
          response.data.htmlContent[k].tag # "script"

\* ------------------------------------------------------ library functions

Redacted == <<"[REDACTED]">>
Missing == <<"[MISSING]">>

\* Faulty variant: the configuration is logged as it is.
sanitizeConfigForLoggingClear(config) == config

sanitizeConfigForLogging(config) ==
    [github |-> [token |-> IF config.github.token # <<>> THEN Redacted ELSE Missing,
                 owner |-> OrElse(config.github.owner, Missing),
                 repo |-> OrElse(config.github.repo, Missing),
                 branch |-> config.github.branch],
     app |-> config.app]

LowerCase ==
    <<"a", "b", "c", "d", "e", "f", "g", "h", "i", "j", "k", "l", "m",
      "n", "o", "p", "q", "r", "s", "t", "u", "v", "w", "x", "y", "z">>
UpperCase ==
    <<"A", "B", "C", "D", "E", "F", "G", "H", "I", "J", "K", "L", "M",
      "N", "O", "P", "Q", "R", "S", "T", "U", "V", "W", "X", "Y", "Z">>
Digits == {"0", "1", "2", "3", "4", "5", "6", "7", "8", "9"}

\* String.prototype.toLowerCase, on ASCII.
toLowerCase(s) ==
    [k \in 1 .. Len(s) |->
        IF \E i \in 1 .. Len(UpperCase) : UpperCase[i] = s[k]
        THEN LowerCase[CHOOSE i \in 1 .. Len(UpperCase) : UpperCase[i] = s[k]]
        ELSE s[k]]

\* The character class [a-z0-9].
IsSlugChar(c) == c \in Digits \/ \E i \in 1 .. Len(LowerCase) : LowerCase[i] = c

\* .replace(/[^a-z0-9]+/g, '-'): of every longest run of characters outside
\* [a-z0-9] the first becomes a hyphen and the others go.
Dropped == "dropped"
Kept(c) == c # Dropped
replaceRuns(s) ==
    SelectSeq([k \in 1 .. Len(s) |->
                  IF IsSlugChar(s[k]) THEN s[k]
                  ELSE IF k = 1 \/ IsSlugChar(s[k - 1]) THEN "-" ELSE Dropped],
              Kept)

\* .replace(/^-+|-+$/g, '')
RECURSIVE trimLeft(_)
trimLeft(s) == IF s # <<>> /\ Head(s) = "-" THEN trimLeft(Tail(s)) ELSE s
RECURSIVE trimRight(_)
trimRight(s) ==
    IF s # <<>> /\ s[Len(s)] = "-" THEN trimRight(SubSeq(s, 1, Len(s) - 1)) ELSE s
trimHyphens(s) == trimRight(trimLeft(s))

\* .substring(0, n)
substring0(s, n) == SubSeq(s, 1, IF Len(s) < n THEN Len(s) ELSE n)

\* The length createSlug cuts at.
SlugLimit == 50

createSlug(title) ==
    substring0(trimHyphens(replaceRuns(toLowerCase(title))), SlugLimit)

\* Titles are built from runs of one character: a lowercase letter, an
\* uppercase letter, a digit, a hyphen, a space; a run is short or nearly as
\* long as a slug.
TitleChars == {"a", "Z", "7", "-", " "}
RunLengths == {1, 49}
MaxRuns == 3

RECURSIVE Expand(_)
Expand(runs) ==
    IF runs = <<>> THEN <<>>
    ELSE [k \in 1 .. Head(runs).n |-> Head(runs).ch] \o Expand(Tail(runs))

HelloWorld ==
    <<"H", "e", "l", "l", "o", ",", " ", "W", "o", "r", "l", "d", "!", " ", "2", "0", "2", "4">>

Titles ==
    {HelloWorld}
        \cup { Expand(runs) :
                 runs \in UNION {[1 .. n -> [ch : TitleChars, n : RunLengths]] : n \in 0 .. MaxRuns} }

\* ------------------------------------------------------ extractMarkdownTitle

\* Here a markdown document is a string of characters.
Newline == "\n"
WhiteSpace == {" ", "\t", "\r", Newline}

\* markdownContent.split('\n')
RECURSIVE split(_)
split(s) ==
    IF \E k \in 1 .. Len(s) : s[k] = Newline
    THEN LET k == CHOOSE i \in 1 .. Len(s) :
                      s[i] = Newline /\ \A j \in 1 .. i - 1 : s[j] # Newline
         IN <<SubSeq(s, 1, k - 1)>> \o split(SubSeq(s, k + 1, Len(s)))
    ELSE <<s>>

\* String.prototype.trim
RECURSIVE trimStart(_)
trimStart(s) == IF s # <<>> /\ Head(s) \in WhiteSpace THEN trimStart(Tail(s)) ELSE s
RECURSIVE trimEnd(_)
trimEnd(s) ==
    IF s # <<>> /\ s[Len(s)] \in WhiteSpace THEN trimEnd(SubSeq(s, 1, Len(s) - 1)) ELSE s
trim(s) == trimEnd(trimStart(s))

HeadingPrefix == <<"#", " ">>
Separator == <<"-", "-", "-">>
Untitled == <<"U", "n", "t", "i", "t", "l", "e", "d">>
NoTitle == <<"no title">>

\* The length a title taken from a text line is cut at.
TitleLimit == 100

\* The first loop: the first line that, trimmed, starts with '# '.
RECURSIVE firstHeading(_)
firstHeading(lines) ==
    IF lines = <<>> THEN NoTitle
    ELSE LET trimmed == trim(Head(lines)) IN
         IF startsWith(trimmed, HeadingPrefix)
         THEN trim(SubSeq(trimmed, 3, Len(trimmed)))
         ELSE firstHeading(Tail(lines))

\* The second loop: the first line that, trimmed, is not empty and does not
\* start with '---'.
RECURSIVE firstText(_)
firstText(lines) ==
    IF lines = <<>> THEN NoTitle
    ELSE LET trimmed == trim(Head(lines)) IN
         IF trimmed # <<>> /\ ~startsWith(trimmed, Separator)
         THEN substring0(trimmed, TitleLimit)
         ELSE firstText(Tail(lines))

\* Faulty variant: the first text line is taken, heading or not.
extractMarkdownTitleFirstLine(markdownContent) ==
    LET lines == split(markdownContent) IN
    IF firstText(lines) # NoTitle THEN firstText(lines) ELSE Untitled

extractMarkdownTitle(markdownContent) ==
    LET lines == split(markdownContent) IN
    IF firstHeading(lines) # NoTitle THEN firstHeading(lines)
    ELSE IF firstText(lines) # NoTitle THEN firstText(lines)
         ELSE Untitled

\* The lines documents are made of: empty and blank lines, headings of the
\* first level (plain, indented and padded, without text, without the space),
\* a heading of the second level, separators, text, a line of 101 characters
\* and a line ending in a carriage return.
LineKinds ==
    { <<>>, <<" ">>, <<"#", " ", "T">>, <<" ", "#", " ", " ", "U", " ">>, <<"#", " ">>,
      <<"#", "T">>, <<"#", "#", " ", "S">>, <<"-", "-", "-">>, <<"-", "-", "-", " ", "x">>,
      <<"b", "o", "d", "y">>, [k \in 1 .. 101 |-> "a"], <<" ", "b", "\r">> }

\* Largest number of lines in a document.
MaxLines == 3

\* lines.join('\n')
RECURSIVE Join(_)
Join(lines) ==
    IF lines = <<>> THEN <<>>
    ELSE IF Len(lines) = 1 THEN Head(lines)
         ELSE Head(lines) \o <<Newline>> \o Join(Tail(lines))

Documents == { Join(lines) : lines \in UNION {[1 .. n -> LineKinds] : n \in 0 .. MaxLines} }

\* A call of extractMarkdownTitle.
callExtractMarkdownTitle(markdownContent) ==
    /\ Fresh
    /\ request' = [op |-> "extractMarkdownTitle", markdownContent |-> markdownContent]
    /\ response' = [status |-> "returned", value |-> extractMarkdownTitle(markdownContent)]
    /\ UNCHANGED <<sync, repo, storage, ui>>

\* A call of createSlug.
callCreateSlug(title) ==
    /\ Fresh
    /\ request' = [op |-> "createSlug", title |-> title]
    /\ response' = [status |-> "returned", value |-> createSlug(title)]
    /\ UNCHANGED <<sync, repo, storage, ui>>

\* A call of sanitizeConfigForLogging on the configuration of an environment.
callSanitizeConfigForLogging(env) ==
    /\ Fresh
    /\ request' = [op |-> "sanitizeConfigForLogging", config |-> getConfig(env)]
    /\ response' = [status |-> "returned", value |-> sanitizeConfigForLogging(getConfig(env))]
    /\ UNCHANGED <<sync, repo, storage, ui>>

\* The documents rendered: the texts of the repository's files.
RenderInputs == {e.text : e \in EntryKinds}

\* A call of markdownToHTML.
callMarkdownToHTML(markdownContent, faults) ==
    /\ Fresh
    /\ request' = [op |-> "markdownToHTML", markdownContent |-> markdownContent,
                   faults |-> faults]
    /\ response' = [status |-> "returned", value |-> markdownToHTML(markdownContent, faults)]
    /\ UNCHANGED <<sync, repo, storage, ui>>

LibInit ==
    /\ commits = <<>>
    /\ head = 0
    /\ call = [p \in Procs |-> Idle]
    /\ ncalls = 0
    /\ last = NoCall
    /\ repo = NoRepo
    /\ request = NoRequest
    /\ response = NoResponse
    /\ storage = NoStorage
    /\ ui = NoUI

LibNext ==
    \/ \E title \in Titles : callCreateSlug(title)
    \/ \E env \in Envs : callSanitizeConfigForLogging(env)
    \/ \E markdownContent \in Documents : callExtractMarkdownTitle(markdownContent)
    \/ \E markdownContent \in RenderInputs, faults \in Faults :
          callMarkdownToHTML(markdownContent, faults)

LibSpec == LibInit /\ [][LibNext]_vars

\* ------------------------------------------------------------------ drafts

\* A Date is an instant: a day of January 2024 and whether it is half past
\* midnight or half past eleven in the evening, UTC; or it is invalid.
Days == 1 .. 3
Instants == [day : Days, late : BOOLEAN]
InvalidDate == [day |-> 0, late |-> FALSE]

DayOfMonth(day) ==
    IF day = 1 THEN "01" ELSE IF day = 2 THEN "02" ELSE IF day = 3 THEN "03" ELSE "04"

\* Date.prototype.toISOString, on a valid date.
toISOString(date) ==
    <<"2024", "-", "01", "-", DayOfMonth(date.day), "T",
      IF date.late THEN "23" ELSE "00", ":", "30", ":", "00", ".", "000", "Z">>

\* new Date(value) for a value out of a JSON body: the instant an ISO string
\* names, an invalid date for anything else.
NewDate(value) ==
    IF \E t \in Instants : toISOString(t) = value
    THEN CHOOSE t \in Instants : toISOString(t) = value
    ELSE InvalidDate

\* The server's time zone: UTC, or an hour east of it.
Zones == {"UTC", "UTC+1"}

\* date-fns format(date, 'yyyy-MM-dd'): the date's calendar day in the
\* server's time zone.
format(date, zone) ==
    <<"2024", "-", "01", "-",
      DayOfMonth(IF date.late /\ zone = "UTC+1" THEN date.day + 1 ELSE date.day)>>

\* toISOString and format throw a RangeError on an invalid date.
DateThrows(date) == date = InvalidDate

\* draftToMarkdown: the front matter and the body.
draftToMarkdown(draft) ==
    <<"---", Newline, "title: ", "\"">> \o draft.title
        \o <<"\"", Newline, "date: ">> \o toISOString(draft.createdAt)
        \o <<Newline, "lastModified: ">> \o toISOString(draft.updatedAt)
        \o <<Newline, "---", Newline, Newline>> \o draft.body

\* Faulty variant: the file is named after the day of the last change.
generateDraftFilenameByUpdate(draft, directory, zone) ==
    LET slug == substring0(trimHyphens(replaceRuns(toLowerCase(draft.title))), SlugLimit)
        filename == format(draft.updatedAt, zone) \o <<"-">> \o OrElse(slug, <<"u", "n", "t", "i", "t", "l", "e", "d">>) \o MdSuffix
    IN IF directory # <<>> THEN directory \o Slash \o filename ELSE filename

\* generateDraftFilename(draft, directory).
generateDraftFilename(draft, directory, zone) ==
    LET slug == substring0(trimHyphens(replaceRuns(toLowerCase(draft.title))), SlugLimit)
        dateStr == format(draft.createdAt, zone)
        filename == dateStr \o <<"-">> \o OrElse(slug, <<"u", "n", "t", "i", "t", "l", "e", "d">>) \o MdSuffix
    IN IF directory # <<>> THEN directory \o Slash \o filename ELSE filename

\* ------------------------------------------------- writing, one call at a time

\* A GitHubFile; sha is NoSha when the caller gives none.
GitHubFile(name, content, sha) == [name |-> name, content |-> content, sha |-> sha]

\* The request of commitMultipleFiles that the store fails, if any.
BatchFailures ==
    {"none", "getRef", "getCommit", "createBlob", "createTree", "createCommit", "updateRef"}

\* Of tree entries naming one path twice the store keeps one; which one
\* is not specified.
Picks == {"first", "last"}

\* The files of a tree with entries written over them: per path the blob of
\* the entry that is kept.
WriteEntries(written, entries, pick) ==
    LET paths == {entries[i].path : i \in 1 .. Len(entries)}
        at(path) == {i \in 1 .. Len(entries) : entries[i].path = path}
        kept(path) == CHOOSE i \in at(path) :
                         \A j \in at(path) : IF pick = "first" THEN i <= j ELSE i >= j
    IN {w \in written : w.path \notin paths}
           \cup {[path |-> path, bytes |-> BlobBytes(entries[kept(path)].sha)] : path \in paths}

\* The requests of a list up to the last one of a method.
UpTo(sent, method) ==
    SubSeq(sent, 1, CHOOSE k \in 1 .. Len(sent) :
                       /\ sent[k].method = method
                       /\ \A j \in k + 1 .. Len(sent) : sent[j].method # method)

\* commitMultipleFiles(files, message) run from its call to its return with
\* no other writer: the requests it sends, what they carry, its result and
\* the files of the branch afterwards.
commitMultipleFilesRun(files, written, failAt, pick) ==
    LET blobs == [i \in 1 .. Len(files) |-> BlobSha(Base64Decode(BlobContent(files[i])))]
        c == [files |-> files, blobs |-> blobs]
        all == <<Request("getRef", 0), Request("getCommit", 0)>>
                   \o AfterGetCommit(files)
                   \o (IF files = <<>> THEN <<>> ELSE <<Request("createTree", 0)>>)
                   \o <<Request("createCommit", 0), Request("updateRef", 0)>>
        sent == IF failAt = "none" THEN all ELSE UpTo(all, failAt)
    IN [sent |-> sent,
        blobs |-> IF Len(sent) > 2 THEN [i \in 1 .. Len(files) |-> BlobContent(files[i])] ELSE <<>>,
        tree |-> IF \E k \in 1 .. Len(sent) : sent[k].method = "createTree"
                 THEN TreeEntries(c) ELSE <<>>,
        result |-> IF failAt = "none" THEN "ok" ELSE "Failed to commit multiple files",
        written |-> IF failAt = "none" THEN WriteEntries(written, TreeEntries(c), pick)
                    ELSE written]

\* commitFile(filePath, content, message) run from its call to its return
\* with no other writer; resp answers getFileSha's request and putFails
\* tells whether the store fails the write.
commitFileRun(filePath, content, written, resp, putFails) ==
    LET put == [filePath |-> filePath, content |-> content,
                existingSha |-> ShaOfResponse(resp)]
    IN IF getFileShaRethrows(resp.status)
       THEN [sent |-> <<Request("getContent", 0)>>, result |-> "Failed to commit file",
             written |-> written]
       ELSE [sent |-> <<Request("getContent", 0), Request("createOrUpdateFileContents", 0)>>,
             result |-> IF putFails THEN "Failed to commit file" ELSE "ok",
             written |-> IF putFails THEN written
                         ELSE {w \in written : w.path # PutPath(put)}
                                  \cup {[path |-> PutPath(put),
                                         bytes |-> Base64Decode(PutContent(put))]}]

\* -------------------------------------------------------- publish handlers

\* A request body without the field, or with a field of another type.
Undefined == <<"undefined">>

\* The drafts a client sends, as JSON: the dates are ISO strings.
DraftJson(id, title, body, createdAt, updatedAt) ==
    [id |-> id, title |-> title, body |-> body, createdAt |-> createdAt, updatedAt |-> updatedAt]

\* Two drafts of one day whose titles differ in punctuation only; two of one
\* evening, one without a letter in its title and one titled Untitled; a
\* draft of the next day, changed later; a draft whose creation date is no
\* date.
DraftKinds ==
    { DraftJson("d1", <<"N", "o", "t", "e", "!">>, <<"o", "n", "e">>,
                toISOString([day |-> 1, late |-> FALSE]), toISOString([day |-> 1, late |-> FALSE])),
      DraftJson("d2", <<"N", "o", "t", "e", "?">>, <<"t", "w", "o">>,
                toISOString([day |-> 1, late |-> FALSE]), toISOString([day |-> 1, late |-> TRUE])),
      DraftJson("d3", <<"!", "!", "!">>, <<"o", "n", "e">>,
                toISOString([day |-> 1, late |-> TRUE]), toISOString([day |-> 1, late |-> TRUE])),
      DraftJson("d4", <<"U", "n", "t", "i", "t", "l", "e", "d">>, <<"t", "w", "o">>,
                toISOString([day |-> 1, late |-> TRUE]), toISOString([day |-> 2, late |-> FALSE])),
      DraftJson("d5", <<"N", "o", "t", "e", "!">>, <<"-", "-", "-">>,
                toISOString([day |-> 2, late |-> FALSE]), toISOString([day |-> 2, late |-> TRUE])),
      DraftJson("d6", <<"N", "o", " ", "d", "a", "t", "e">>, <<"o", "n", "e">>, Undefined, Undefined) }

\* A body without a draft, and one whose `drafts` is missing or no array.
NoDraft == [id |-> "undefined"]
NoDrafts == <<NoDraft>>

\* Largest number of drafts in one POST.
MaxDrafts == 2

\* The `drafts` of a POST body: missing, or a list of drafts, none twice.
DraftLists ==
    {NoDrafts}
        \cup UNION { { l \in [1 .. n -> DraftKinds] :
                         \A i, j \in 1 .. n : i # j => l[i].id # l[j].id } : n \in 0 .. MaxDrafts }

\* The `directory` of a body: missing, empty, or a name.
DirectoryInputs == {Undefined, <<>>, <<"p", "o", "s", "t", "s">>}

\* const { directory = 'content' } = body
DefaultTo(x, default) == IF x = Undefined THEN default ELSE x

\* {...draft, createdAt: new Date(draft.createdAt), updatedAt: new Date(draft.updatedAt)}
WithDates(draft) ==
    [draft EXCEPT !.createdAt = NewDate(draft.createdAt), !.updatedAt = NewDate(draft.updatedAt)]

\* The response of a publish handler; `files` remembers what it handed to
\* the service.
PublishJson(status, error, details, data, answers, files) ==
    [status |-> status, error |-> error, details |-> details, data |-> data,
     store |-> answers, files |-> files]

\* POST /api/github/publish with {drafts, directory}.
publishPOST(drafts, directoryParam, env, zone) ==
    /\ Fresh
    /\ request' = [op |-> "publishPOST", drafts |-> drafts, directory |-> directoryParam,
                   env |-> env, zone |-> zone]
    /\ LET directory == DefaultTo(directoryParam, ContentDir) IN
       IF drafts = NoDrafts \/ drafts = <<>>
       THEN /\ response' = PublishJson(400, "Drafts array is required and must not be empty",
                                       "", <<>>, <<>>, <<>>)
            /\ UNCHANGED repo
       ELSE IF getValidatedConfigThrows(env)
            THEN /\ response' = PublishJson(500, ConfigInvalid.error, "", <<>>, <<>>, <<>>)
                 /\ UNCHANGED repo
            ELSE IF \E i \in 1 .. Len(drafts) :
                       \/ DateThrows(WithDates(drafts[i]).createdAt)
                       \/ DateThrows(WithDates(drafts[i]).updatedAt)
                 THEN /\ response' = PublishJson(500, "Failed to publish drafts to GitHub",
                                                 "Invalid time value", <<>>, <<>>, <<>>)
                      /\ UNCHANGED repo
                 ELSE \E githubFiles \in
                            {[i \in 1 .. Len(drafts) |->
                                GitHubFile(generateDraftFilename(WithDates(drafts[i]), directory, zone),
                                           draftToMarkdown(WithDates(drafts[i])), NoSha)]} :
                        \E failAt \in BatchFailures, pick \in Picks :
                          \E run \in {commitMultipleFilesRun(githubFiles, repo.written,
                                                             failAt, pick)} :
                           /\ response' =
                                 IF run.result = "ok"
                                 THEN PublishJson(200, "", "",
                                          [published |-> [i \in 1 .. Len(githubFiles) |->
                                                             githubFiles[i].name],
                                           total |-> Len(drafts)],
                                          run.sent, githubFiles)
                                 ELSE PublishJson(500, "Failed to publish drafts to GitHub",
                                                  run.result, <<>>, run.sent, githubFiles)
                           /\ repo' = [repo EXCEPT !.written = run.written]
    /\ UNCHANGED <<sync, storage, ui>>

\* The `draft` and the `filePath` of a PUT body.
DraftInputs == {NoDraft} \cup DraftKinds
FilePathInputs == {Undefined, PathOf(ContentDir, <<"a", ".", "m", "d">>)}

\* PUT /api/github/publish with {draft, directory, filePath}.
publishPUT(draft, directoryParam, filePathParam, env, zone) ==
    /\ Fresh
    /\ request' = [op |-> "publishPUT", draft |-> draft, directory |-> directoryParam,
                   filePath |-> filePathParam, env |-> env, zone |-> zone]
    /\ LET directory == DefaultTo(directoryParam, ContentDir) IN
       IF draft = NoDraft
       THEN /\ response' = PublishJson(400, "Draft is required", "", <<>>, <<>>, <<>>)
            /\ UNCHANGED repo
       ELSE IF getValidatedConfigThrows(env)
            THEN /\ response' = PublishJson(500, ConfigInvalid.error, "", <<>>, <<>>, <<>>)
                 /\ UNCHANGED repo
            ELSE IF \/ DateThrows(WithDates(draft).createdAt)
                    \/ DateThrows(WithDates(draft).updatedAt)
                 THEN /\ response' = PublishJson(500, "Failed to publish draft to GitHub",
                                                 "Invalid time value", <<>>, <<>>, <<>>)
                      /\ UNCHANGED repo
                 ELSE LET markdownContent == draftToMarkdown(WithDates(draft))
                          filename == IF filePathParam # Undefined /\ filePathParam # <<>>
                                      THEN filePathParam
                                      ELSE generateDraftFilename(WithDates(draft), directory, zone)
                      IN \E resp \in Answers(filename), putFails \in BOOLEAN :
                          \E run \in {commitFileRun(filename, markdownContent, repo.written,
                                                     resp, putFails)} :
                           /\ response' =
                                 IF run.result = "ok"
                                 THEN PublishJson(200, "", "",
                                          [published |-> filename, title |-> draft.title],
                                          run.sent,
                                          <<GitHubFile(filename, markdownContent, NoSha)>>)
                                 ELSE PublishJson(500, "Failed to publish draft to GitHub",
                                                  run.result, <<>>, run.sent,
                                          <<GitHubFile(filename, markdownContent, NoSha)>>)
                           /\ repo' = [repo EXCEPT !.written = run.written]
    /\ UNCHANGED <<sync, storage, ui>>

\* The batches handed to commitMultipleFiles directly: one or two files,
\* each with no sha, the sha of another content, or the sha of its own.
ShaInputs == {NoSha, BlobSha(<<"o", "l", "d">>)}
ShaBatches ==
    { <<GitHubFile(<<"a", ".", "m", "d">>, <<"o", "n", "e">>, s)>> : s \in ShaInputs }
        \cup { <<GitHubFile(<<"a", ".", "m", "d">>, <<"o", "n", "e">>, s), GitHubFile(<<"b", ".", "m", "d">>, <<"t", "w", "o">>, t)>> :
                 s \in ShaInputs, t \in ShaInputs }

\* A call of commitMultipleFiles on the service.
callCommitMultipleFiles(files, failAt, pick) ==
    /\ Fresh
    /\ request' = [op |-> "commitMultipleFiles", files |-> files, written |-> repo.written,
                   failAt |-> failAt, pick |-> pick]
    /\ \E run \in {commitMultipleFilesRun(files, repo.written, failAt, pick)} :
       /\ response' = [status |-> "returned", result |-> run.result, store |-> run.sent,
                       blobs |-> run.blobs, tree |-> run.tree]
       /\ repo' = [repo EXCEPT !.written = run.written]
    /\ UNCHANGED <<sync, storage, ui>>

\* The repositories the handlers run on: an empty one, one with two markdown
\* files in `content`, and one that holds a file published before.
HandlerRepos ==
    { [exists |-> FALSE, entries |-> <<>>, written |-> {}],
      [exists |-> TRUE,
       entries |-> <<[type |-> "file", name |-> <<"a", ".", "m", "d">>, text |-> DocScript],
                     [type |-> "file", name |-> <<"b", ".", "m", "d">>, text |-> DocLink]>>,
       written |-> {}],
      [exists |-> FALSE, entries |-> <<>>,
       written |-> {[path |-> ContentDir \o Slash \o <<"2024", "-", "01", "-", "01", "-">>
                                  \o <<"n", "o", "t", "e">> \o MdSuffix,
                     bytes |-> <<"o", "l", "d">>]}] }

HandlerInit ==
    /\ commits = <<>>
    /\ head = 0
    /\ call = [p \in Procs |-> Idle]
    /\ ncalls = 0
    /\ last = NoCall
    /\ repo \in HandlerRepos
    /\ request = NoRequest
    /\ response = NoResponse
    /\ storage = NoStorage
    /\ ui = NoUI

HandlerNext ==
    \/ \E filePath \in FetchPaths, env \in HandlerEnvs : fetchGET(filePath, env)
    \/ \E paths \in PostInputs, env \in HandlerEnvs : fetchPOST(paths, env)
    \/ \E directory \in ListInputs \cup {<<>>}, env \in HandlerEnvs : listGET(directory, env)
    \/ \E drafts \in DraftLists, directory \in DirectoryInputs, env \in HandlerEnvs,
          zone \in Zones : publishPOST(drafts, directory, env, zone)
    \/ \E draft \in DraftInputs, directory \in DirectoryInputs, filePath \in FilePathInputs,
          env \in HandlerEnvs, zone \in Zones : publishPUT(draft, directory, filePath, env, zone)
    \/ \E files \in ShaBatches, failAt \in BatchFailures, pick \in Picks :
          callCommitMultipleFiles(files, failAt, pick)

HandlerSpec == HandlerInit /\ [][HandlerNext]_vars

\* -------------------------------------- properties of the library functions

\* C19: sanitizeConfigForLogging gives '[REDACTED]' for every non-empty
\* token and '[MISSING]' for an empty one, and its output does not depend on
\* which non-empty token the configuration holds: the same configuration with
\* any other non-empty token has the same output.
C19_TokenRedacted ==
    request.op = "sanitizeConfigForLogging" =>
        LET config == request.config
            out == response.value
        IN /\ out.github.token = IF config.github.token = <<>> THEN Missing ELSE Redacted
           /\ config.github.token # <<>> =>
                 \A t \in Tokens \ {<<>>} :
                    sanitizeConfigForLogging([config EXCEPT !.github.token = t]) = out
           /\ config.github.token # <<>> =>
                 config.github.token \notin
                     {out.github.token, out.github.owner, out.github.repo, out.github.branch}

\* A configuration with a token has just been sanitized, and another token
\* gives the same output.
C19_Witness ==
    /\ request.op = "sanitizeConfigForLogging"
    /\ request.config.github.token = Ghp \o <<"1">>
    /\ response.value.github.token = Redacted
    /\ response.value.github.owner = <<"o">>
    /\ sanitizeConfigForLogging([request.config EXCEPT !.github.token = GithubPat \o <<"1">>])
           = response.value

\* Only lowercase letters, digits and hyphens; no two hyphens in a row; no
\* hyphen at the start.
SlugShape(s) ==
    /\ \A k \in 1 .. Len(s) : IsSlugChar(s[k]) \/ s[k] = "-"
    /\ \A k \in 1 .. Len(s) - 1 : ~(s[k] = "-" /\ s[k + 1] = "-")
    /\ s # <<>> => s[1] # "-"

\* C20: createSlug returns, for every title, at most 50 characters, only
\* lowercase letters, digits and single hyphens, with no hyphen at the start
\* and none at the end; "Hello, World! 2024" gives "hello-world-2024".
C20_SlugWellFormed ==
    request.op = "createSlug" =>
        LET s == response.value IN
        /\ Len(s) <= 50
        /\ SlugShape(s)
        /\ s # <<>> => s[Len(s)] # "-"
        /\ request.title = HelloWorld =>
              s = <<"h", "e", "l", "l", "o", "-", "w", "o", "r", "l", "d", "-",
                    "2", "0", "2", "4">>

\* What the code does: all of that, except that a slug cut at 50 characters
\* may end in a hyphen, because the ends are trimmed before the cut.
C20_SlugWellFormedUnlessCut ==
    request.op = "createSlug" =>
        LET s == response.value IN
        /\ Len(s) <= 50
        /\ SlugShape(s)
        /\ (s # <<>> /\ s[Len(s)] = "-") => Len(s) = 50
        /\ request.title = HelloWorld =>
              s = <<"h", "e", "l", "l", "o", "-", "w", "o", "r", "l", "d", "-",
                    "2", "0", "2", "4">>

\* ------------------------------------------ properties of reading, second part

\* The requested paths whose fetch succeeded (ok) or failed (~ok), in the
\* order of the request; answers[i] is how the store answered path i.
RECURSIVE PathsAnswered(_, _, _)
PathsAnswered(paths, answers, ok) ==
    IF paths = <<>> THEN <<>>
    ELSE (IF (Head(answers) = "200") = ok THEN <<Head(paths)>> ELSE <<>>)
             \o PathsAnswered(Tail(paths), Tail(answers), ok)

\* C27: the multi-file fetch handler's response partitions the request:
\* `successful` holds exactly the paths whose fetch succeeded, and every
\* entry of `failed` carries the path of a fetch that failed, one entry for
\* each failed fetch.
C27_FetchPostPartitions ==
    (request.op = "fetchPOST" /\ response.status = 200) =>
        LET successful == response.data.successful
            failed == response.data.failed
        IN /\ [k \in 1 .. Len(successful) |-> successful[k].path]
                  = PathsAnswered(request.paths, response.store, TRUE)
           /\ Len(failed) = Len(PathsAnswered(request.paths, response.store, FALSE))
           /\ \A k \in 1 .. Len(failed) :
                 \E i \in 1 .. Len(request.paths) :
                    request.paths[i] = failed[k].path /\ response.store[i] # "200"

\* What the code does: `successful` is right and `failed` has one entry for
\* each failed fetch, but entry k carries the k-th requested path, whether
\* that path's fetch failed or not.
C27_FailedNamesLeadingPaths ==
    (request.op = "fetchPOST" /\ response.status = 200) =>
        LET successful == response.data.successful
            failed == response.data.failed
        IN /\ [k \in 1 .. Len(successful) |-> successful[k].path]
                  = PathsAnswered(request.paths, response.store, TRUE)
           /\ Len(failed) = Len(PathsAnswered(request.paths, response.store, FALSE))
           /\ \A k \in 1 .. Len(failed) : failed[k].path = request.paths[k]

\* ------------------------- properties of the library functions, second part

\* C29: createSlug is idempotent: the slug of a slug is that slug.
C29_SlugIdempotent ==
    request.op = "createSlug" => createSlug(response.value) = response.value

\* What the code does: a slug that does not end in a hyphen is its own slug;
\* one that does (a slug cut at 50 characters) loses the hyphen, and the
\* result is its own slug.
C29_SlugOfSlugTrimsOnce ==
    request.op = "createSlug" =>
        LET s == response.value IN
        /\ (s = <<>> \/ s[Len(s)] # "-") => createSlug(s) = s
        /\ (s # <<>> /\ s[Len(s)] = "-") => createSlug(s) = SubSeq(s, 1, Len(s) - 1)
        /\ createSlug(createSlug(s)) = createSlug(s)

\* The lines of a document with the white space around each removed, and
\* the ones among them that are first-level headings and text lines.
TrimmedLines(markdownContent) ==
    LET lines == split(markdownContent) IN [i \in 1 .. Len(lines) |-> trim(lines[i])]
HeadingLines(ls) ==
    {i \in 1 .. Len(ls) : Len(ls[i]) >= 2 /\ ls[i][1] = "#" /\ ls[i][2] = " "}
TextLines(ls) ==
    {i \in 1 .. Len(ls) :
        ls[i] # <<>> /\ ~(Len(ls[i]) >= 3 /\ ls[i][1] = "-" /\ ls[i][2] = "-" /\ ls[i][3] = "-")}
Least(S) == CHOOSE i \in S : \A j \in S : i <= j

\* C21: extractMarkdownTitle returns the text of the first first-level
\* heading line ('# ' prefix) if any line is one; otherwise the first
\* non-empty line that does not start with '---', cut at 100 characters;
\* otherwise 'Untitled'.  Lines are taken without the white space around
\* them.  For "# T\n\nbody" it returns "T".
C21_TitleExtracted ==
    request.op = "extractMarkdownTitle" =>
        LET ls == TrimmedLines(request.markdownContent)
            title == response.value
        IN /\ HeadingLines(ls) # {} =>
                 LET l == ls[Least(HeadingLines(ls))] IN
                 title = trim(SubSeq(l, 3, Len(l)))
           /\ (HeadingLines(ls) = {} /\ TextLines(ls) # {}) =>
                 LET l == ls[Least(TextLines(ls))] IN
                 title = SubSeq(l, 1, IF Len(l) > 100 THEN 100 ELSE Len(l))
           /\ (HeadingLines(ls) = {} /\ TextLines(ls) = {}) => title = Untitled
           /\ request.markdownContent
                  = <<"#", " ", "T", Newline, Newline, "b", "o", "d", "y">> => title = <<"T">>

\* The title has just been taken from a heading that follows a text line.
C21_Witness ==
    /\ request.op = "extractMarkdownTitle"
    /\ request.markdownContent
           = <<"b", "o", "d", "y", Newline, " ", "#", " ", " ", "U", " ", Newline, "#", " ", "T">>
    /\ response.value = <<"U">>

\* The title has just been cut from a line of 101 characters that follows a
\* separator.
C21_WitnessCut ==
    /\ request.op = "extractMarkdownTitle"
    /\ request.markdownContent = <<"-", "-", "-", Newline>> \o [k \in 1 .. 101 |-> "a"]
    /\ response.value = [k \in 1 .. 100 |-> "a"]

\* A document with nothing to take a title from has just been given.
C21_WitnessUntitled ==
    /\ request.op = "extractMarkdownTitle"
    /\ request.markdownContent = <<"-", "-", "-", Newline, " ">>
    /\ response.value = Untitled

\* ------------------------------------------------- properties, third part

\* The place of a request in the course of commitMultipleFiles.
Rank(r) ==
    CASE r.method = "getRef" -> 1
      [] r.method = "getCommit" -> 2
      [] r.method = "createBlob" -> 3
      [] r.method = "createTree" -> 4
      [] r.method = "createCommit" -> 5
      [] r.method = "updateRef" -> 6
      [] OTHER -> 0

\* The requests were sent in the order of their places, each place but the
\* blobs' once, none before the one it depends on was sent.
InOrder(sent) ==
    /\ \A i, j \in 1 .. Len(sent) :
          i < j => /\ Rank(sent[i]) <= Rank(sent[j])
                   /\ Rank(sent[i]) = Rank(sent[j]) => sent[i].method = "createBlob"
    /\ \A j \in 1 .. Len(sent) :
          Rank(sent[j]) > 1 =>
             \/ \E i \in 1 .. j - 1 : Rank(sent[i]) = Rank(sent[j]) - 1
             \/ Rank(sent[j]) = 4 /\ \E i \in 1 .. j - 1 : Rank(sent[i]) = 2

Sent(sent, method) == \E i \in 1 .. Len(sent) : sent[i].method = method

\* C23: within commitMultipleFiles the head ref and the head commit are read
\* before any blob is created; the tree is created only after every blob
\* creation has completed; the commit is created only after the tree, and
\* the ref is updated only after the commit was created.
C23_StoreCallsOrdered ==
    /\ \A p \in Procs :
          call[p].op = "commitMultipleFiles" =>
             LET c == call[p] IN
             /\ InOrder(c.sent)
             /\ Sent(c.sent, "createBlob") => (c.ref # 0 /\ c.commit # 0)
             /\ Sent(c.sent, "createTree") =>
                   /\ c.pending = {}
                   /\ \A i \in 1 .. Len(c.files) :
                         c.blobs[i] # NoSha /\ Request("createBlob", i) \in {c.sent[k] : k \in 1 .. Len(c.sent)}
             /\ Sent(c.sent, "createCommit") => c.tree = Overlay(BaseTree(c), TreeEntries(c), c.id)
             /\ Sent(c.sent, "updateRef") => c.newCommit # 0
    /\ last.op = "commitMultipleFiles" => InOrder(last.sent)

\* A batch of two files has just been committed with all six kinds of
\* request sent.
C23_Witness ==
    /\ last.op = "commitMultipleFiles"
    /\ last.result = "ok"
    /\ Len(last.files) = 2
    /\ Len(last.sent) = 7

\* The blob of the second file is there while the first is still awaited.
C23_WitnessAnyOrder ==
    \E p \in Procs :
       /\ call[p].pc = "createBlob"
       /\ Len(call[p].files) = 2
       /\ call[p].pending = {1}
       /\ call[p].blobs[2] # NoSha

\* C25: rendering does not raise and fails closed: when marked throws,
\* markdownToHTML returns the sanitized placeholder '<p>Error parsing
\* markdown content</p>'; when the sanitizer throws, it returns the
\* placeholder '<p>Error processing content</p>'; in no failure case does it
\* return the parsed HTML unsanitized.
C25_RenderFailsClosed ==
    request.op = "markdownToHTML" =>
        LET html == response.value IN
        /\ response.status = "returned"
        /\ (request.faults.marked /\ ~request.faults.purify) =>
              html = <<[tag |-> "p", attrs |-> {}, text |-> "Error parsing markdown content"]>>
        /\ request.faults.purify =>
              html = <<[tag |-> "p", attrs |-> {}, text |-> "Error processing content"]>>
        /\ Safe(html)
        /\ request.faults = NoFault => html = purifySanitize(marked(request.markdownContent))

\* The sanitizer has just thrown on a document whose parsed HTML holds a
\* script element.
C25_Witness ==
    /\ request.op = "markdownToHTML"
    /\ request.faults = [marked |-> FALSE, purify |-> TRUE]
    /\ \E k \in 1 .. Len(request.markdownContent) :
          marked(request.markdownContent)[k].tag = "script"
    /\ response.value = SanitizeErrorHTML

\* marked has just thrown and the sanitizer has not.
C25_WitnessParse ==
    /\ request.op = "markdownToHTML"
    /\ request.faults = [marked |-> TRUE, purify |-> FALSE]
    /\ response.value = ParseErrorHTML

\* ------------------------------------------ properties of the handlers

\* The calendar day, in the server's time zone, of the instant an ISO string
\* names, as yyyy-MM-dd.
LocalDate(iso, zone) ==
    IF iso[7] = "23" /\ zone = "UTC+1"
    THEN <<iso[1], "-", iso[3], "-", IF iso[5] = "01" THEN "02" ELSE "03">>
    ELSE SubSeq(iso, 1, 5)

\* The path and the content a draft is to be written with.
ExpectedPath(draft, directoryParam, zone) ==
    LET directory == IF directoryParam = Undefined THEN <<"c", "o", "n", "t", "e", "n", "t">> ELSE directoryParam
        slug == createSlug(draft.title)
    IN (IF directory = <<>> THEN <<>> ELSE directory \o <<"/">>)
           \o LocalDate(draft.createdAt, zone) \o <<"-">>
           \o (IF slug = <<>> THEN <<"u", "n", "t", "i", "t", "l", "e", "d">> ELSE slug) \o <<".", "m", "d">>
ExpectedContent(draft) ==
    <<"---", "\n", "title: ", "\"">> \o draft.title \o <<"\"", "\n">>
        \o <<"date: ">> \o draft.createdAt \o <<"\n">>
        \o <<"lastModified: ">> \o draft.updatedAt \o <<"\n">>
        \o <<"---", "\n", "\n">> \o draft.body

\* C22: each draft is turned into a file whose path is
\* '<directory>/<creation date yyyy-MM-dd>-<slug of title>.md' ('untitled'
\* for an empty slug, no directory prefix for an empty directory) and whose
\* content is the front matter with title, date (createdAt) and lastModified
\* (updatedAt) followed by the draft's body unchanged.  The creation date is
\* the calendar day in the server's time zone.
C22_DraftBecomesFile ==
    /\ (request.op = "publishPOST" /\ response.files # <<>>) =>
          /\ Len(response.files) = Len(request.drafts)
          /\ \A i \in 1 .. Len(request.drafts) :
                /\ response.files[i].name
                       = ExpectedPath(request.drafts[i], request.directory, request.zone)
                /\ response.files[i].content = ExpectedContent(request.drafts[i])
          /\ response.status = 200 =>
                response.data.published
                    = [i \in 1 .. Len(request.drafts) |->
                          ExpectedPath(request.drafts[i], request.directory, request.zone)]
    /\ (request.op = "publishPUT" /\ response.files # <<>>) =>
          /\ request.filePath = Undefined =>
                response.files[1].name
                    = ExpectedPath(request.draft, request.directory, request.zone)
          /\ response.files[1].content = ExpectedContent(request.draft)

\* Two drafts have just been published without a directory by a server east
\* of UTC: one made late in the evening whose title has no letter, one made
\* in the morning.
C22_Witness ==
    /\ request.op = "publishPOST"
    /\ response.status = 200
    /\ request.directory = <<>>
    /\ request.zone = "UTC+1"
    /\ Len(request.drafts) = 2
    /\ request.drafts[1].id = "d3"
    /\ request.drafts[2].id = "d2"
    /\ response.files[1].name = <<"2024", "-", "01", "-", "02", "-">> \o <<"u", "n", "t", "i", "t", "l", "e", "d", ".", "m", "d">>
    /\ response.files[2].name = <<"2024", "-", "01", "-", "01", "-">> \o <<"n", "o", "t", "e", ".", "m", "d">>

\* C24: commitMultipleFiles ignores the sha a caller gives with a file: a
\* batch that differs from the one committed only in its files' sha values
\* sends the same requests carrying the same blobs and tree entries, and has
\* the same result and the same effect on the branch; so a batch with a
\* stale sha is not rejected for it.
C24_BatchIgnoresFileSha ==
    request.op = "commitMultipleFiles" =>
        \A shas \in [1 .. Len(request.files) -> ShaInputs \cup {BlobSha(<<"n", "e", "w">>)}] :
           LET twin == [i \in 1 .. Len(request.files) |->
                           [request.files[i] EXCEPT !.sha = shas[i]]]
               run == commitMultipleFilesRun(twin, request.written, request.failAt, request.pick)
           IN /\ run.sent = response.store
              /\ run.blobs = response.blobs
              /\ run.tree = response.tree
              /\ run.result = response.result
              /\ run.written = repo.written

\* A batch of two files, the first with the sha of a content the branch
\* never held, has just been committed.
C24_Witness ==
    /\ request.op = "commitMultipleFiles"
    /\ Len(request.files) = 2
    /\ request.files[1].sha = BlobSha(<<"o", "l", "d">>)
    /\ request.files[2].sha = NoSha
    /\ response.result = "ok"
    /\ \E w \in repo.written : w.path = request.files[1].name

\* The handlers, and the requests that lack what the handler requires.
Handlers == {"listGET", "fetchGET", "fetchPOST", "publishPOST", "publishPUT"}
LacksArgument(req) ==
    \/ req.op = "fetchGET" /\ req.path = <<>>
    \/ req.op = "fetchPOST" /\ req.paths = NotAnArray
    \/ req.op = "publishPOST" /\ req.drafts \in {NoDrafts, <<>>}
    \/ req.op = "publishPUT" /\ req.draft = NoDraft

\* The environment gives no valid configuration: token, owner or repository
\* is missing, or the token starts with neither 'ghp_' nor 'github_pat_'.
InvalidConfiguration(env) ==
    \/ env.GITHUB_TOKEN = <<>>
    \/ env.GITHUB_OWNER = <<>>
    \/ env.GITHUB_REPO = <<>>
    \/ \A prefix \in {<<"g", "h", "p", "_">>,
                        <<"g", "i", "t", "h", "u", "b", "_", "p", "a", "t", "_">>} :
          \/ Len(env.GITHUB_TOKEN) < Len(prefix)
          \/ \E k \in 1 .. Len(prefix) : env.GITHUB_TOKEN[k] # prefix[k]

\* C26: a handler that finds the configuration invalid answers 500 without
\* sending any store request, and a request answered with 400 (missing path,
\* paths no array, missing draft, drafts empty or no array) sends none
\* either; the repository stays as it was.
C26_RejectedBeforeAnyStoreRequest ==
    request.op \in Handlers =>
        /\ LacksArgument(request) => response.status = 400
        /\ response.status = 400 => (response.store = <<>> /\ repo \in HandlerRepos)
        /\ (InvalidConfiguration(request.env) /\ ~LacksArgument(request)) =>
              /\ response.status = 500
              /\ response.error = "GitHub configuration is invalid or missing"
              /\ response.store = <<>>
              /\ repo \in HandlerRepos

\* The publish handler has just answered 500 to a request with two drafts
\* because the token is malformed.
C26_Witness ==
    /\ request.op = "publishPOST"
    /\ Len(request.drafts) = 2
    /\ request.drafts # NoDrafts
    /\ request.env.GITHUB_TOKEN = <<"x", "y", "z">>
    /\ response.status = 500
    /\ response.store = <<>>

\* The fetch handler has just answered 400 to a request without a path.
C26_WitnessBadRequest ==
    /\ request.op = "fetchGET"
    /\ request.path = <<>>
    /\ response.status = 400
    /\ response.store = <<>>

\* The bytes the branch holds at a path after the writes, Absent if none.
WrittenAt(path) ==
    IF \E w \in repo.written : w.path = path
    THEN (CHOOSE w \in repo.written : w.path = path).bytes
    ELSE Absent

\* C28: in a batch the publish handler accepts, distinct drafts get distinct
\* paths, so the tree has at most one entry per path, and after a successful
\* publish every path listed in `published` holds its own draft's content.
C28_DistinctDraftsDistinctPaths ==
    (request.op = "publishPOST" /\ response.status = 200) =>
        LET published == response.data.published IN
        /\ \A i, j \in 1 .. Len(request.drafts) :
              request.drafts[i].id # request.drafts[j].id => published[i] # published[j]
        /\ \A i \in 1 .. Len(request.drafts) :
              WrittenAt(published[i]) = Utf8Encode(response.files[i].content)

\* The slug a file is named with.
NameSlug(title) ==
    IF createSlug(title) = <<>> THEN <<"u", "n", "t", "i", "t", "l", "e", "d">>
    ELSE createSlug(title)

\* What the code does: drafts with the same creation day and the same slug
\* ('untitled' for an empty one) get the same path; every published path holds the content of one of the
\* drafts that got it, its own when no other draft got the path.
C28_PublishedPathHoldsOneOfItsDrafts ==
    (request.op = "publishPOST" /\ response.status = 200) =>
        LET published == response.data.published IN
        /\ \A i, j \in 1 .. Len(request.drafts) :
              published[i] = published[j] <=>
                 /\ NameSlug(request.drafts[i].title) = NameSlug(request.drafts[j].title)
                 /\ LocalDate(request.drafts[i].createdAt, request.zone)
                        = LocalDate(request.drafts[j].createdAt, request.zone)
        /\ \A i \in 1 .. Len(request.drafts) :
              \E j \in 1 .. Len(request.drafts) :
                 /\ published[j] = published[i]
                 /\ WrittenAt(published[i]) = Utf8Encode(response.files[j].content)

\* ------------------------------------------------------------- draft store

\* localStorage holds under the drafts key nothing, a JSON text, or a text
\* that is no JSON; outside a browser there is no window and no storage.
NoItem == [kind |-> "none"]
CorruptItem == [kind |-> "corrupt"]

\* JSON.stringify(drafts): a Date is written as its ISO string.
JSONstringify(drafts) ==
    [kind |-> "json",
     value |-> [i \in 1 .. Len(drafts) |->
                   [drafts[i] EXCEPT !.createdAt = toISOString(drafts[i].createdAt),
                                     !.updatedAt = toISOString(drafts[i].updatedAt)]]]

\* loadDrafts: [] without a window, without an item and when the item does
\* not parse; else the parsed drafts with their dates made Dates again.
loadDrafts ==
    IF ~storage.window \/ storage.item.kind # "json" THEN <<>>
    ELSE [i \in 1 .. Len(storage.item.value) |-> WithDates(storage.item.value[i])]

\* saveDrafts(drafts): nothing without a window; localStorage.setItem may
\* throw (the storage is full), and saveDrafts then throws.
saveDrafts(drafts, full) ==
    IF ~storage.window \/ full THEN storage
    ELSE [storage EXCEPT !.item = JSONstringify(drafts)]
saveDraftsThrows(full) == storage.window /\ full

\* new Date(): the clock advances with every call.
Now == [day |-> (ncalls \div 2) + 1, late |-> ncalls % 2 = 1]

\* generateId(): made of the time and a random number.
DraftIds == <<"draft-0", "draft-1", "draft-2", "draft-3", "draft-4">>
generateId == DraftIds[ncalls + 1]

\* Largest number of calls of the draft store in one behaviour.
MaxStoreCalls == 3

\* What the calls are given.
TitleInputs == {<<>>, <<"t">>}
IdInputs == {"draft-0", "draft-1", "draft-x"}
UpdateInputs == {[title |-> <<"u">>], [body |-> <<"c">>]}

Returned(op, id, value, saved) ==
    /\ request' = [op |-> op, id |-> id, before |-> storage, at |-> Now]
    /\ response' = [status |-> "returned", value |-> value, saved |-> saved]
Threw(op, id) ==
    /\ request' = [op |-> op, id |-> id, before |-> storage, at |-> Now]
    /\ response' = [status |-> "threw", value |-> "Failed to save drafts. Storage may be full.",
                    saved |-> TRUE]

Null == [id |-> "null"]

\* createDraft(input)
createDraft(title, full) ==
    /\ ncalls < MaxStoreCalls
    /\ ncalls' = ncalls + 1
    /\ LET draft == [id |-> generateId, title |-> OrElse(title, <<"U", "n", "t", "i", "t", "l", "e", "d", " ", "D", "r", "a", "f", "t">>),
                     body |-> <<>>, createdAt |-> Now, updatedAt |-> Now]
       IN /\ storage' = saveDrafts(<<draft>> \o loadDrafts, full)
          /\ IF saveDraftsThrows(full) THEN Threw("createDraft", draft.id)
             ELSE Returned("createDraft", draft.id, draft, TRUE)
    /\ UNCHANGED <<commits, head, call, last, repo, ui>>

\* Faulty variant: an id that is not stored is looked up as the first draft.
findIndexOrFirst(drafts, id) ==
    IF \E i \in 1 .. Len(drafts) : drafts[i].id = id
    THEN CHOOSE i \in 1 .. Len(drafts) :
            drafts[i].id = id /\ \A j \in 1 .. i - 1 : drafts[j].id # id
    ELSE IF drafts = <<>> THEN 0 ELSE 1

\* drafts.findIndex(d => d.id === id): 0 stands for -1.
findIndex(drafts, id) ==
    IF \E i \in 1 .. Len(drafts) : drafts[i].id = id
    THEN CHOOSE i \in 1 .. Len(drafts) :
            drafts[i].id = id /\ \A j \in 1 .. i - 1 : drafts[j].id # id
    ELSE 0

\* Faulty variant: the time of the update is not recorded.
UpdatedKeepingStamp(draft, updates) ==
    [f \in DOMAIN draft |-> IF f \in DOMAIN updates THEN updates[f] ELSE draft[f]]

\* {...draft, ...updates, updatedAt: new Date()}
Updated(draft, updates) ==
    [f \in DOMAIN draft |->
        IF f = "updatedAt" THEN Now
        ELSE IF f \in DOMAIN updates THEN updates[f] ELSE draft[f]]

\* updateDraft(id, updates)
updateDraft(id, updates, full) ==
    /\ ncalls < MaxStoreCalls
    /\ ncalls' = ncalls + 1
    /\ LET drafts == loadDrafts
           draftIndex == findIndex(drafts, id)
       IN IF draftIndex = 0
          THEN /\ Returned("updateDraft", id, Null, FALSE)
               /\ UNCHANGED storage
          ELSE LET updatedDraft == Updated(drafts[draftIndex], updates) IN
               /\ storage' = saveDrafts([drafts EXCEPT ![draftIndex] = updatedDraft], full)
               /\ IF saveDraftsThrows(full) THEN Threw("updateDraft", id)
                  ELSE Returned("updateDraft", id, updatedDraft, TRUE)
    /\ UNCHANGED <<commits, head, call, last, repo, ui>>

\* The test of drafts.filter(d => d.id !== id).
RECURSIVE filterOut(_, _)
filterOut(drafts, id) ==
    IF drafts = <<>> THEN <<>>
    ELSE (IF Head(drafts).id # id THEN <<Head(drafts)>> ELSE <<>>) \o filterOut(Tail(drafts), id)

\* deleteDraft(id)
deleteDraft(id, full) ==
    /\ ncalls < MaxStoreCalls
    /\ ncalls' = ncalls + 1
    /\ LET drafts == loadDrafts
           filteredDrafts == filterOut(drafts, id)
       IN IF Len(filteredDrafts) = Len(drafts)
          THEN /\ Returned("deleteDraft", id, FALSE, FALSE)
               /\ UNCHANGED storage
          ELSE /\ storage' = saveDrafts(filteredDrafts, full)
               /\ IF saveDraftsThrows(full) THEN Threw("deleteDraft", id)
                  ELSE Returned("deleteDraft", id, TRUE, TRUE)
    /\ UNCHANGED <<commits, head, call, last, repo, ui>>

\* clearAllDrafts()
clearAllDrafts ==
    /\ ncalls < MaxStoreCalls
    /\ ncalls' = ncalls + 1
    /\ storage' = IF storage.window THEN [storage EXCEPT !.item = NoItem] ELSE storage
    /\ Returned("clearAllDrafts", "", Null, FALSE)
    /\ UNCHANGED <<commits, head, call, last, repo, ui>>

\* The draft store in a browser with nothing or something unreadable under
\* its key, or on the server.
StoreInit ==
    /\ commits = <<>>
    /\ head = 0
    /\ call = [p \in Procs |-> Idle]
    /\ ncalls = 0
    /\ last = NoCall
    /\ repo = NoRepo
    /\ request = NoRequest
    /\ response = NoResponse
    /\ storage \in [window : BOOLEAN, item : {NoItem, CorruptItem}]
    /\ ui = NoUI

StoreNext ==
    \/ \E title \in TitleInputs, full \in BOOLEAN : createDraft(title, full)
    \/ \E id \in IdInputs, updates \in UpdateInputs, full \in BOOLEAN :
          updateDraft(id, updates, full)
    \/ \E id \in IdInputs, full \in BOOLEAN : deleteDraft(id, full)
    \/ clearAllDrafts

StoreSpec == StoreInit /\ [][StoreNext]_vars

\* -------------------------------------------- properties of the draft store

\* The ids of the drafts readable from a storage.
StoredIds(st) ==
    IF st.window /\ st.item.kind = "json"
    THEN {st.item.value[i].id : i \in 1 .. Len(st.item.value)}
    ELSE {}

\* C30: updateDraft with an id that is not stored returns null, deleteDraft
\* with an id that is not stored returns false, and in both cases the stored
\* list is left as it was and no save is performed.
C30_UnknownIdChangesNothing ==
    (request.op \in {"updateDraft", "deleteDraft"} /\ request.id \notin StoredIds(request.before)) =>
        /\ response.status = "returned"
        /\ request.op = "updateDraft" => response.value = Null
        /\ request.op = "deleteDraft" => response.value = FALSE
        /\ ~response.saved
        /\ storage = request.before

\* updateDraft has just been given an id that is not stored while two
\* drafts are.
C30_Witness ==
    /\ request.op = "updateDraft"
    /\ request.id = "draft-x"
    /\ Cardinality(StoredIds(request.before)) = 2
    /\ response.value = Null
    /\ storage = request.before

\* deleteDraft has just been given the id of a draft deleted before.
C30_WitnessDelete ==
    /\ request.op = "deleteDraft"
    /\ request.id = "draft-0"
    /\ StoredIds(request.before) = {"draft-1"}
    /\ response.value = FALSE

\* The drafts readable from a storage, as loadDrafts reads them.
StoredDrafts(st) ==
    IF st.window /\ st.item.kind = "json"
    THEN [i \in 1 .. Len(st.item.value) |-> WithDates(st.item.value[i])]
    ELSE <<>>

\* The positions of a list of drafts that hold the id.
PositionsOf(drafts, id) == {i \in 1 .. Len(drafts) : drafts[i].id = id}

\* C31: in a browser, a call of the draft store that returns has changed the
\* stored list in one place only.  updateDraft(id, ...) leaves the list as
\* long as it was and every other draft as it was, and the draft with that id
\* keeps its id, its createdAt and its position and has the time of the call
\* as updatedAt; deleteDraft(id) leaves the other drafts, in their order;
\* createDraft puts the draft it returns in front of the drafts that were
\* stored.
C31_OnlyTheNamedDraftChanges ==
    LET before == StoredDrafts(request.before)
        after == StoredDrafts(storage)
        at == PositionsOf(before, request.id)
    IN (storage.window /\ response.status = "returned" /\ response.saved) =>
        /\ request.op = "createDraft" =>
              /\ Len(after) = Len(before) + 1
              /\ after[1] = response.value
              /\ after[1].id = request.id
              /\ \A i \in 1 .. Len(before) : after[i + 1] = before[i]
        /\ request.op = "updateDraft" =>
              /\ Len(after) = Len(before)
              /\ Cardinality(at) = 1
              /\ \A i \in 1 .. Len(before) :
                    IF i \in at
                    THEN /\ after[i].id = request.id
                         /\ after[i].createdAt = before[i].createdAt
                         /\ after[i].updatedAt = request.at
                         /\ after[i] = response.value
                    ELSE after[i] = before[i]
        /\ request.op = "deleteDraft" =>
              /\ Cardinality(at) = 1
              /\ Len(after) = Len(before) - 1
              /\ \A i \in 1 .. Len(after) :
                    after[i] = before[IF \E k \in at : k <= i THEN i + 1 ELSE i]

\* The older of two stored drafts has just been updated: it is still the
\* second, created when it was and updated now.
C31_Witness ==
    /\ request.op = "updateDraft"
    /\ response.status = "returned"
    /\ response.saved
    /\ Len(StoredDrafts(storage)) = 2
    /\ StoredDrafts(storage)[2].id = request.id
    /\ StoredDrafts(storage)[2].updatedAt # StoredDrafts(storage)[2].createdAt
    /\ StoredDrafts(storage)[1] = StoredDrafts(request.before)[1]

\* The newer of two stored drafts has just been deleted.
C31_WitnessDelete ==
    /\ request.op = "deleteDraft"
    /\ response.status = "returned"
    /\ response.value = TRUE
    /\ Len(StoredDrafts(request.before)) = 2
    /\ StoredDrafts(request.before)[1].id = request.id
    /\ StoredDrafts(storage) = Tail(StoredDrafts(request.before))

\* A draft has just been created in front of another.
C31_WitnessCreate ==
    /\ request.op = "createDraft"
    /\ response.status = "returned"
    /\ Len(StoredDrafts(storage)) = 2
    /\ StoredDrafts(storage)[1].id = request.id

\* ------------------------------------------------------------ DraftManager

\* A message shown by a component; Null where the code holds null.
Message(text) == [text |-> text]

\* The time of a Date, in half days.
getTime(date) == 2 * date.day + (IF date.late THEN 1 ELSE 0)

\* drafts.sort((a, b) => b.updatedAt.getTime() - a.updatedAt.getTime()):
\* latest update first; Array.prototype.sort keeps equal drafts in order.
RECURSIVE sortByUpdated(_)
sortByUpdated(drafts) ==
    IF drafts = <<>> THEN <<>>
    ELSE LET rest == sortByUpdated(Tail(drafts))
             later == {i \in 1 .. Len(rest) :
                          getTime(rest[i].updatedAt) > getTime(Head(drafts).updatedAt)}
         IN SubSeq(rest, 1, Cardinality(later)) \o <<Head(drafts)>>
               \o SubSeq(rest, Cardinality(later) + 1, Len(rest))

\* getDraftsSortedByUpdated(), read from a given storage.
getDraftsSortedByUpdated(st) == sortByUpdated(StoredDrafts(st))

\* The state of the two components before either is mounted.
Unmounted ==
    [mounted |-> "none",
     drafts |-> <<>>, editingDraft |-> Null, showCreateForm |-> FALSE,
     publishing |-> FALSE, publishError |-> Null, publishSuccess |-> Null,
     publishes |-> <<>>,
     filePath |-> <<"c", "o", "n", "t", "e", "n", "t", "/", "p", "a", "t", "h", ".", "m", "d">>, content |-> Null, loading |-> FALSE, error |-> Null,
     viewMode |-> "rendered", availableFiles |-> <<>>, loadingFiles |-> FALSE,
     showDropdown |-> FALSE, fetches |-> <<>>, listings |-> 0]

\* Largest number of requests of one kind in flight.
MaxInFlight == 2

\* The handler that ran last.
Did(op, id, status) ==
    /\ request' = [op |-> op, id |-> id, editing |-> ui.editingDraft.id]
    /\ response' = [status |-> status]

InManager == ui.mounted = "DraftManager"

\* What the two forms submit: DraftForm submits only what validateDraft
\* accepts.
CreateInputs == {[title |-> <<"t">>, body |-> <<>>]}
EditInputs == {[title |-> <<"u">>, body |-> <<"c">>]}

\* onClick={() => setShowCreateForm(true)}
clickNewDraft ==
    /\ InManager
    /\ ~ui.showCreateForm
    /\ ui' = [ui EXCEPT !.showCreateForm = TRUE]
    /\ Did("clickNewDraft", "", "returned")
    /\ UNCHANGED <<sync, repo, storage>>

\* onCancel of the two forms
cancelForm ==
    /\ InManager
    /\ \/ /\ ui.showCreateForm
          /\ ui' = [ui EXCEPT !.showCreateForm = FALSE]
       \/ /\ ui.editingDraft # Null
          /\ ui' = [ui EXCEPT !.editingDraft = Null]
    /\ Did("cancelForm", "", "returned")
    /\ UNCHANGED <<sync, repo, storage>>

\* handleCreateDraft(input); nothing after createDraft runs when it throws.
handleCreateDraft(input, full) ==
    /\ InManager
    /\ ui.showCreateForm
    /\ ncalls < MaxStoreCalls
    /\ ncalls' = ncalls + 1
    /\ LET draft == [id |-> generateId, title |-> OrElse(input.title, <<"U", "n", "t", "i", "t", "l", "e", "d", " ", "D", "r", "a", "f", "t">>),
                     body |-> input.body, createdAt |-> Now, updatedAt |-> Now]
       IN /\ storage' = saveDrafts(<<draft>> \o loadDrafts, full)
          /\ IF saveDraftsThrows(full)
             THEN /\ UNCHANGED ui
                  /\ Did("handleCreateDraft", draft.id, "threw")
             ELSE /\ ui' = [ui EXCEPT !.drafts = getDraftsSortedByUpdated(storage'),
                                      !.showCreateForm = FALSE]
                  /\ Did("handleCreateDraft", draft.id, "returned")
    /\ UNCHANGED <<commits, head, call, last, repo>>

\* onClick={() => setEditingDraft(draft)}, on a draft of the list
clickEdit(i) ==
    /\ InManager
    /\ i \in 1 .. Len(ui.drafts)
    /\ ui.editingDraft # ui.drafts[i]
    /\ ui' = [ui EXCEPT !.editingDraft = ui.drafts[i]]
    /\ Did("clickEdit", ui.drafts[i].id, "returned")
    /\ UNCHANGED <<sync, repo, storage>>

\* handleUpdateDraft(input)
handleUpdateDraft(input, full) ==
    /\ InManager
    /\ ui.editingDraft # Null
    /\ ncalls < MaxStoreCalls
    /\ ncalls' = ncalls + 1
    /\ LET drafts == loadDrafts
           draftIndex == findIndex(drafts, ui.editingDraft.id)
       IN IF draftIndex = 0
          THEN /\ UNCHANGED <<storage, ui>>
               /\ Did("handleUpdateDraft", ui.editingDraft.id, "null")
          ELSE /\ storage' = saveDrafts([drafts EXCEPT ![draftIndex] =
                                            Updated(drafts[draftIndex], input)], full)
               /\ IF saveDraftsThrows(full)
                  THEN /\ UNCHANGED ui
                       /\ Did("handleUpdateDraft", ui.editingDraft.id, "threw")
                  ELSE /\ ui' = [ui EXCEPT !.drafts = getDraftsSortedByUpdated(storage'),
                                           !.editingDraft = Null]
                       /\ Did("handleUpdateDraft", ui.editingDraft.id, "returned")
    /\ UNCHANGED <<commits, head, call, last, repo>>

\* Faulty variant: the edit form stays open whichever draft is deleted.
StillEditingAnyway(editingDraft, id) == editingDraft

\* if (editingDraft?.id === id) setEditingDraft(null)
StillEditing(editingDraft, id) == IF editingDraft.id = id THEN Null ELSE editingDraft

\* handleDeleteDraft(id), on a draft of the list
handleDeleteDraft(i, full) ==
    /\ InManager
    /\ i \in 1 .. Len(ui.drafts)
    /\ ncalls < MaxStoreCalls
    /\ ncalls' = ncalls + 1
    /\ LET id == ui.drafts[i].id
           drafts == loadDrafts
           filteredDrafts == filterOut(drafts, id)
           found == Len(filteredDrafts) # Len(drafts)
       IN /\ storage' = IF found THEN saveDrafts(filteredDrafts, full) ELSE storage
          /\ IF found /\ saveDraftsThrows(full)
             THEN /\ UNCHANGED ui
                  /\ Did("handleDeleteDraft", id, "threw")
             ELSE /\ ui' = [ui EXCEPT !.drafts = getDraftsSortedByUpdated(storage'),
                                      !.editingDraft = StillEditing(ui.editingDraft, id)]
                  /\ Did("handleDeleteDraft", id, IF found THEN "returned" ELSE "false")
    /\ UNCHANGED <<commits, head, call, last, repo>>

\* Faulty variant: the Publish All button is always enabled.
PublishAllEnabledAlways == FALSE

\* disabled={publishing || drafts.length === 0}
PublishAllDisabled == ui.publishing \/ Len(ui.drafts) = 0

\* handlePublishAll, up to the fetch; the request holds the drafts sent.
handlePublishAll ==
    /\ InManager
    /\ ~PublishAllDisabled
    /\ Len(ui.publishes) < MaxInFlight
    /\ IF Len(ui.drafts) = 0
       THEN /\ ui' = [ui EXCEPT !.publishError = Message("No drafts to publish")]
            /\ Did("handlePublishAll", "", "returned")
       ELSE /\ ui' = [ui EXCEPT !.publishing = TRUE, !.publishError = Null,
                                !.publishSuccess = Null,
                                !.publishes = Append(@, Len(ui.drafts))]
            /\ Did("handlePublishAll", "", "sent")
    /\ UNCHANGED <<sync, repo, storage>>

\* How a request of a component ends: the response is OK with the data, OK
\* without them, not OK with or without an error in the body, or fetch or
\* response.json() throws.
Outcomes ==
    {[kind |-> "ok", error |-> Null],
     [kind |-> "no data", error |-> Message("Cannot read properties of undefined")],
     [kind |-> "not ok", error |-> Message("Invalid configuration")],
     [kind |-> "not ok", error |-> Null],
     [kind |-> "thrown", error |-> Message("Failed to fetch")]}

\* The message of the error caught, with the default of a response that is
\* not OK and has no error.
Caught(outcome, default) == IF outcome.error = Null THEN Message(default) ELSE outcome.error

\* Remove(s, k): the requests in flight without the k-th.
Remove(s, k) == SubSeq(s, 1, k - 1) \o SubSeq(s, k + 1, Len(s))

\* Faulty variant: the flag is cleared only after the try block succeeded.
AfterTry(outcome) == outcome.kind # "ok"

\* finally { setPublishing(false) }: the flag after a request has ended.
AfterFinally(outcome) == FALSE

\* handlePublishAll, from the answer of the fetch on
publishSettles(k, outcome) ==
    /\ InManager
    /\ k \in 1 .. Len(ui.publishes)
    /\ IF outcome.kind = "ok"
       THEN ui' = [ui EXCEPT !.publishSuccess =
                                 [text |-> "Successfully published", total |-> ui.publishes[k]],
                             !.publishing = AfterFinally(outcome),
                             !.publishes = Remove(@, k)]
       ELSE ui' = [ui EXCEPT !.publishError = Caught(outcome, "Failed to publish drafts"),
                             !.publishing = AfterFinally(outcome),
                             !.publishes = Remove(@, k)]
    /\ Did("publishSettles", "", outcome.kind)
    /\ UNCHANGED <<sync, repo, storage>>

\* ------------------------------------------------------ GitHubContentViewer

InViewer == ui.mounted = "GitHubContentViewer"

\* What is typed into the path field, and the files the listing answers.
PathInputs == {<<"c", "o", "n", "t", "e", "n", "t", "/", "p", "a", "t", "h", ".", "m", "d">>, <<"a", ".", "m", "d">>, <<" ", " ">>, <<>>}
FileNames == {<<"c", "o", "n", "t", "e", "n", "t", "/", "b", ".", "m", "d">>}
FileLists == {<<>>} \cup {<<file>> : file \in FileNames}

\* data.data of an OK response that holds no data: undefined.
NoData == [id |-> "undefined"]

\* data.data of the fetch route for a path.
ContentOf(path) == [filePath |-> path, markdownContent |-> <<"m">>, htmlContent |-> <<"h">>]

\* onChange={(e) => setFilePath(e.target.value)}; the field is disabled
\* while loading.
setFilePath(value) ==
    /\ InViewer
    /\ ~ui.loading
    /\ value # ui.filePath
    /\ ui' = [ui EXCEPT !.filePath = value]
    /\ Did("setFilePath", "", "returned")
    /\ UNCHANGED <<sync, repo, storage>>

\* disabled={loading}, of the submit button
SubmitDisabled == ui.loading

\* handleSubmit and fetchContent up to the fetch; the form is not submitted
\* while its required field is empty.
fetchContent ==
    /\ InViewer
    /\ ~SubmitDisabled
    /\ ui.filePath # <<>>
    /\ Len(ui.fetches) < MaxInFlight
    /\ IF trim(ui.filePath) = <<>>
       THEN /\ ui' = [ui EXCEPT !.error = Message("Please enter a file path")]
            /\ Did("fetchContent", "", "returned")
       ELSE /\ ui' = [ui EXCEPT !.loading = TRUE, !.error = Null,
                                !.fetches = Append(@, ui.filePath)]
            /\ Did("fetchContent", "", "sent")
    /\ UNCHANGED <<sync, repo, storage>>

\* fetchContent, from the answer of the fetch on
fetchSettles(k, outcome) ==
    /\ InViewer
    /\ k \in 1 .. Len(ui.fetches)
    /\ IF outcome.kind \in {"ok", "no data"}
       THEN ui' = [ui EXCEPT !.content = IF outcome.kind = "ok" THEN ContentOf(ui.fetches[k])
                                         ELSE NoData,
                             !.loading = AfterFinally(outcome),
                             !.fetches = Remove(@, k)]
       ELSE ui' = [ui EXCEPT !.error = Caught(outcome, "Failed to fetch content"),
                             !.content = Null,
                             !.loading = AfterFinally(outcome),
                             !.fetches = Remove(@, k)]
    /\ Did("fetchSettles", "", outcome.kind)
    /\ UNCHANGED <<sync, repo, storage>>

\* disabled={loadingFiles}, of the Browse Files button
BrowseDisabled == ui.loadingFiles

\* fetchAvailableFiles, up to the fetch
fetchAvailableFiles ==
    /\ InViewer
    /\ ~BrowseDisabled
    /\ ui.listings < MaxInFlight
    /\ ui' = [ui EXCEPT !.loadingFiles = TRUE, !.listings = @ + 1]
    /\ Did("fetchAvailableFiles", "", "sent")
    /\ UNCHANGED <<sync, repo, storage>>

\* fetchAvailableFiles, from the answer of the fetch on
listSettles(outcome, files) ==
    /\ InViewer
    /\ ui.listings > 0
    /\ ui' = [ui EXCEPT !.availableFiles = IF outcome.kind = "ok" THEN files ELSE @,
                        !.loadingFiles = AfterFinally(outcome),
                        !.listings = @ - 1]
    /\ Did("listSettles", "", outcome.kind)
    /\ UNCHANGED <<sync, repo, storage>>

\* onFocus={() => availableFiles.length > 0 && setShowDropdown(true)}
onFocus ==
    /\ InViewer
    /\ ~ui.loading
    /\ Len(ui.availableFiles) > 0
    /\ ~ui.showDropdown
    /\ ui' = [ui EXCEPT !.showDropdown = TRUE]
    /\ Did("onFocus", "", "returned")
    /\ UNCHANGED <<sync, repo, storage>>

\* handleClickOutside
handleClickOutside ==
    /\ InViewer
    /\ ui.showDropdown
    /\ ui' = [ui EXCEPT !.showDropdown = FALSE]
    /\ Did("handleClickOutside", "", "returned")
    /\ UNCHANGED <<sync, repo, storage>>

\* handleFileSelect(selectedFile), on a file of the dropdown
handleFileSelect(selectedFile) ==
    /\ InViewer
    /\ ui.showDropdown
    /\ \E i \in 1 .. Len(ui.availableFiles) : ui.availableFiles[i] = selectedFile
    /\ ui' = [ui EXCEPT !.filePath = selectedFile, !.showDropdown = FALSE]
    /\ Did("handleFileSelect", "", "returned")
    /\ UNCHANGED <<sync, repo, storage>>

\* {error && ...} and {content && ...}: what the component shows.
ErrorShown == ui.error # Null
ContentShown == ui.content \notin {Null, NoData}

\* onClick={() => setViewMode(...)}, of the buttons shown with a content
setViewMode(mode) ==
    /\ InViewer
    /\ ContentShown
    /\ mode # ui.viewMode
    /\ ui' = [ui EXCEPT !.viewMode = mode]
    /\ Did("setViewMode", "", "returned")
    /\ UNCHANGED <<sync, repo, storage>>

\* ---------------------------------------------------- the components' specs

\* One of the two components has just been mounted in a browser whose
\* storage holds no drafts or something unreadable: DraftManager's effect has
\* loaded the empty list.  The components share no state.
UIInit ==
    /\ commits = <<>>
    /\ head = 0
    /\ call = [p \in Procs |-> Idle]
    /\ ncalls = 0
    /\ last = NoCall
    /\ repo = NoRepo
    /\ request = NoRequest
    /\ response = NoResponse
    /\ storage \in [window : {TRUE}, item : {NoItem, CorruptItem}]
    /\ ui \in {[Unmounted EXCEPT !.mounted = m] : m \in {"DraftManager", "GitHubContentViewer"}}

UINext ==
    \/ clickNewDraft
    \/ cancelForm
    \/ \E input \in CreateInputs, full \in BOOLEAN : handleCreateDraft(input, full)
    \/ \E i \in 1 .. MaxStoreCalls : clickEdit(i)
    \/ \E input \in EditInputs, full \in BOOLEAN : handleUpdateDraft(input, full)
    \/ \E i \in 1 .. MaxStoreCalls, full \in BOOLEAN : handleDeleteDraft(i, full)
    \/ handlePublishAll
    \/ \E k \in 1 .. MaxInFlight, outcome \in Outcomes : publishSettles(k, outcome)
    \/ \E value \in PathInputs : setFilePath(value)
    \/ fetchContent
    \/ \E k \in 1 .. MaxInFlight, outcome \in Outcomes : fetchSettles(k, outcome)
    \/ fetchAvailableFiles
    \/ \E outcome \in Outcomes, files \in FileLists : listSettles(outcome, files)
    \/ onFocus
    \/ handleClickOutside
    \/ \E selectedFile \in FileNames : handleFileSelect(selectedFile)
    \/ \E mode \in {"rendered", "markdown"} : setViewMode(mode)

UISpec == UIInit /\ [][UINext]_vars

\* A request that was sent is answered or fails: fetch settles.
UIFairness ==
    /\ WF_vars(\E k \in 1 .. MaxInFlight, outcome \in Outcomes : publishSettles(k, outcome))
    /\ WF_vars(\E k \in 1 .. MaxInFlight, outcome \in Outcomes : fetchSettles(k, outcome))
    /\ WF_vars(\E outcome \in Outcomes, files \in FileLists : listSettles(outcome, files))

UILiveSpec == UISpec /\ UIFairness

\* ------------------------------------------- properties of the components

\* C32: in DraftManager, publishError and publishSuccess are never both
\* non-null.
C32_ErrorOrSuccess == ~(ui.publishError # Null /\ ui.publishSuccess # Null)

\* Drafts were published and then all deleted: the success is shown and the
\* Publish All button is disabled.
C32_Witness ==
    /\ ui.publishSuccess # Null
    /\ ui.drafts = <<>>
    /\ PublishAllDisabled
    /\ ui.publishError = Null

\* A request to publish has just failed.
C32_WitnessError ==
    /\ request.op = "publishSettles"
    /\ response.status = "not ok"
    /\ ui.publishError = Message("Failed to publish drafts")
    /\ ui.publishSuccess = Null

\* C33: in GitHubContentViewer, an error message and a fetched content are
\* never both shown.
C33_ErrorExcludesContent == ErrorShown => ~ContentShown

\* Whenever error is non-null and is not the message about the empty path,
\* content is null.
C33_FetchErrorExcludesContent ==
    (ui.error # Null /\ ui.error # Message("Please enter a file path")) => ui.content = Null

\* C34: of each kind of request at most one is in flight, publishing,
\* loading and loadingFiles are true exactly while their request is in
\* flight, and each of them that is true becomes false.
C34_FlagsCleared ==
    /\ [](/\ ui.publishing = (Len(ui.publishes) = 1)
          /\ ui.loading = (Len(ui.fetches) = 1)
          /\ ui.loadingFiles = (ui.listings = 1)
          /\ Len(ui.publishes) <= 1
          /\ Len(ui.fetches) <= 1
          /\ ui.listings <= 1)
    /\ ui.publishing ~> ~ui.publishing
    /\ ui.loading ~> ~ui.loading
    /\ ui.loadingFiles ~> ~ui.loadingFiles

\* The fetch of a content has just thrown and loading is false again.
C34_Witness ==
    /\ request.op = "fetchSettles"
    /\ response.status = "thrown"
    /\ ~ui.loading
    /\ ui.fetches = <<>>

\* A request to publish is in flight and the button is disabled.
C34_WitnessInFlight ==
    /\ ui.publishing
    /\ Len(ui.publishes) = 1
    /\ PublishAllDisabled
    /\ Len(ui.drafts) > 0

\* C35: in DraftManager, editingDraft is null or has the id of a draft of
\* the list; after the draft being edited was deleted, and after an update
\* that succeeded, editingDraft is null.
C35_EditingDraftListed ==
    /\ ui.editingDraft # Null =>
          \E i \in 1 .. Len(ui.drafts) : ui.drafts[i].id = ui.editingDraft.id
    /\ (request.op = "handleDeleteDraft" /\ response.status # "threw"
           /\ request.editing = request.id) => ui.editingDraft = Null
    /\ (request.op = "handleUpdateDraft" /\ response.status = "returned") =>
          ui.editingDraft = Null

\* The draft being edited has just been deleted.
C35_Witness ==
    /\ request.op = "handleDeleteDraft"
    /\ response.status = "returned"
    /\ request.editing = request.id
    /\ ui.editingDraft = Null

\* Another draft than the one being edited has just been deleted.
C35_WitnessOther ==
    /\ request.op = "handleDeleteDraft"
    /\ response.status = "returned"
    /\ request.editing \notin {request.id, "null"}
    /\ ui.editingDraft # Null

\* An update has just succeeded.
C35_WitnessUpdate ==
    /\ request.op = "handleUpdateDraft"
    /\ response.status = "returned"
    /\ ui.editingDraft = Null
    /\ \E i \in 1 .. Len(ui.drafts) : ui.drafts[i].id = request.id

====
